---- MODULE Spec2Model ----
(***************************************************************************)
(* The agent tool-calling loop of mcp-claude-airbnb.                       *)
(*                                                                         *)
(* Two programs drive the loop: simple_mcp.agent_loop (budget, rate-limit  *)
(* sleeps, one retry of a failed follow-up LLM call) and                   *)
(* testmcp.agent_loop / process_claude_response (no budget, no exception   *)
(* handling).  A behaviour of Spec is ONE run of one of the two programs,  *)
(* chosen by prog.  The LLM service and the tool-providing service are     *)
(* external: what they return or raise is chosen nondeterministically at   *)
(* every call.                                                             *)
(*                                                                         *)
(* Data representation.  A Python str is a sequence of atoms, an atom      *)
(* being a TLA+ string holding either a run of characters json.dumps       *)
(* copies unchanged or one character it escapes; str concatenation is \o.  *)
(* A Python list is a sequence, a dict or an object a record.  A message   *)
(* carries, besides role and content, ctype: the Python type of content    *)
(* ("str" or "list"), which a TLA+ value cannot be asked for.              *)
(***************************************************************************)
EXTENDS Integers, Sequences, FiniteSets, TLC

\* simple_mcp.py:72
max_tool_calls == 5

\* testmcp's loop has no budget; the model explores its first MaxRounds rounds.
MaxRounds == 2

-----------------------------------------------------------------------------
(* Values exchanged with the external services *)

prompt == <<"find lodging in Boston for 1 night">>

\* session.list_tools() result: mcp_tools.tools
mcp_tools ==
  << [name |-> "airbnb_search", description |-> <<"Search listings">>,
      inputSchema |-> "schema_search"],
     [name |-> "airbnb_listing_details", description |-> <<"Listing details">>,
      inputSchema |-> "schema_details"] >>

TextBlock(t) == [type |-> "text", text |-> t]
ToolUseBlock(n, i, id) == [type |-> "tool_use", name |-> n, input |-> i, id |-> id]

Ta == TextBlock(<<"a">>)
Tb == TextBlock(<<"b">>)
U1 == ToolUseBlock("airbnb_search", "input_1", "toolu_1")
U2 == ToolUseBlock("airbnb_listing_details", "input_2", "toolu_2")

\* response.content values the mocked LLM may return: no block, text only,
\* one tool request with text before or after it, several tool requests.
Responses ==
  { <<>>, <<Ta>>, <<Ta, Tb>>, <<Tb, Ta>>,
    <<U1>>, <<Ta, U1>>, <<U2, Tb>>, <<U1, U2>>, <<U2, U1>>, <<Ta, U2, Tb, U1>> }

\* What `await session.call_tool(...)` may do: return a CallToolResult or raise.
Returned(isError, content) == [raised |-> FALSE, isError |-> isError, content |-> content]
Raised(desc) == [raised |-> TRUE, desc |-> desc]

ToolOutcomes ==
  { Returned(FALSE, << [text |-> <<"{", "\"", "searchResults", "\"", ":", "[", "]", "}">>] >>),
    Returned(TRUE,  << [text |-> <<"Invalid dates">>] >>),
    Raised(<<"Connection closed">>) }

-----------------------------------------------------------------------------
(* Pure helpers *)

\* any(block.type == 'tool_use' for block in response.content)
any_tool_use(content) == \E i \in 1..Len(content) : content[i].type = "tool_use"

\* variant: the budget test written with <= instead of <
simple_loop_cond_off_by_one(content, count) ==
  /\ content # <<>>
  /\ any_tool_use(content)
  /\ count <= max_tool_calls

\* variant: a response that carries text besides its tool request ends the loop
simple_loop_cond_text_ends(content, count) ==
  /\ content # <<>>
  /\ \A i \in 1..Len(content) : content[i].type = "tool_use"
  /\ count < max_tool_calls

\* `while response.content and any(...) and tool_call_count < max_tool_calls`
simple_loop_cond(content, count) ==
  /\ content # <<>>
  /\ any_tool_use(content)
  /\ count < max_tool_calls

\* `while response.content and any(...)`
testmcp_loop_cond(content) ==
  /\ content # <<>>
  /\ any_tool_use(content)

\* variant: the for loop without its break, so that the last tool_use block wins
first_tool_use_no_break(content) ==
  content[CHOOSE i \in 1..Len(content) :
            /\ content[i].type = "tool_use"
            /\ \A j \in (i+1)..Len(content) : content[j].type # "tool_use"]

\* `for i, block in enumerate(response.content): if block.type == 'tool_use': ... break`
\* the block the body runs for: the one of least index whose type is tool_use
first_tool_use(content) ==
  content[CHOOSE i \in 1..Len(content) :
            /\ content[i].type = "tool_use"
            /\ \A j \in 1..(i-1) : content[j].type # "tool_use"]

\* final_text = ""; for block in response.content: if block.type == 'text': final_text += block.text
RECURSIVE final_text_loop(_, _, _)
final_text_loop(content, i, text) ==
  IF i > Len(content) THEN text
  ELSE final_text_loop(content, i + 1,
                       IF content[i].type = "text" THEN text \o content[i].text ELSE text)

\* variant: `final_text = block.text` instead of `final_text += block.text`
final_text_of_assign(content) ==
  LET texts == SelectSeq(content, LAMBDA b : b.type = "text")
  IN  IF texts = <<>> THEN <<>> ELSE texts[Len(texts)].text

final_text_of(content) == final_text_loop(content, 1, <<>>)

\* json.dumps of a str: the characters that are escaped
json_escape_atom(a) ==
  CASE a = "\"" -> "\\\""
    [] a = "\\" -> "\\\\"
    [] a = "\n" -> "\\n"
    [] OTHER    -> a

json_string(s) == <<"\"">> \o [i \in 1..Len(s) |-> json_escape_atom(s[i])] \o <<"\"">>

\* json.dumps(tool_output) for the one-key dicts {"error": ...} and {"result": ...}
json_dumps(d) ==
  LET k == CHOOSE k \in DOMAIN d : TRUE
  IN  <<"{">> \o json_string(<<k>>) \o <<": ">> \o json_string(d[k]) \o <<"}">>

\* variant: the declarations are built without the tools' input schemas
to_claude_tools_without_schema(tools) ==
  [i \in 1..Len(tools) |->
     [name |-> tools[i].name, description |-> tools[i].description,
      input_schema |-> "{}"]]

\* claude_tools = [{"name": ..., "description": ..., "input_schema": ...} for tool in mcp_tools.tools]
to_claude_tools(tools) ==
  [i \in 1..Len(tools) |->
     [name |-> tools[i].name, description |-> tools[i].description,
      input_schema |-> tools[i].inputSchema]]

\* variant: the except branch stores str(e) without the message prefix
simple_tool_output_no_prefix(outcome) ==
  IF outcome.raised
    THEN [error |-> outcome.desc]
  ELSE IF outcome.content = <<>>
    THEN [error |-> <<"list index out of range">>]
  ELSE IF outcome.isError
    THEN [error |-> outcome.content[1].text]
    ELSE [result |-> outcome.content[1].text]

\* simple_mcp: the try/except around call_tool and the reading of its result
simple_tool_output(outcome) ==
  IF outcome.raised
    THEN [error |-> <<"Error making tool call: ">> \o outcome.desc]
  ELSE IF outcome.content = <<>>
    THEN [error |-> <<"Error making tool call: ">> \o <<"list index out of range">>]
  ELSE IF outcome.isError
    THEN [error |-> outcome.content[1].text]
    ELSE [result |-> outcome.content[1].text]

\* testmcp: the reading of a returned CallToolResult (no try/except)
testmcp_tool_output(result) ==
  IF result.isError
    THEN [error |-> result.content[1].text]
    ELSE [result |-> result.content[1].text]

\* json.loads: the texts of the model are JSON written without insignificant
\* white space, one atom per token (string contents are the atoms between two
\* quote atoms)
JsonLiteralAtoms == {"null", "true", "false"}
JsonNumberAtoms == {"0", "1", "42"}

json_fail == [ok |-> FALSE, next |-> 0, kind |-> "none", names |-> {}, sr |-> "none"]
json_parsed(next, kind, names, sr) ==
  [ok |-> TRUE, next |-> next, kind |-> kind, names |-> names, sr |-> sr]

\* index of the quote atom that closes the string opened at i, 0 if there is none
\* or if the string holds a bare backslash or a raw newline
json_string_end(t, i) ==
  LET closing == { j \in (i+1)..Len(t) : t[j] = "\"" }
  IN  IF closing = {} THEN 0
      ELSE LET j == CHOOSE j \in closing : \A k \in closing : j <= k
           IN  IF \E k \in (i+1)..(j-1) : t[k] \in {"\\", "\n"} THEN 0 ELSE j

RECURSIVE json_value(_, _), json_elements(_, _, _), json_members(_, _, _, _)

\* the value that starts at atom i: where it ends, its kind, and what
\* `"searchResults" in value` and `value["searchResults"]` look at: names (the
\* keys of an object, the string elements of an array, the content of a
\* string) and sr (the kind of an object's value under "searchResults")
json_value(t, i) ==
  IF i > Len(t) THEN json_fail
  ELSE CASE t[i] = "\"" ->
              LET j == json_string_end(t, i)
              IN  IF j = 0 THEN json_fail
                  ELSE json_parsed(j + 1, "string",
                                   { << t[k] >> : k \in (i+1)..(j-1) }, "none")
         [] t[i] \in JsonLiteralAtoms -> json_parsed(i + 1, "literal", {}, "none")
         [] t[i] \in JsonNumberAtoms -> json_parsed(i + 1, "number", {}, "none")
         [] t[i] = "[" ->
              IF i < Len(t) /\ t[i+1] = "]"
                THEN json_parsed(i + 2, "array", {}, "none")
                ELSE json_elements(t, i + 1, {})
         [] t[i] = "{" ->
              IF i < Len(t) /\ t[i+1] = "}"
                THEN json_parsed(i + 2, "object", {}, "none")
                ELSE json_members(t, i + 1, {}, "none")
         [] OTHER -> json_fail

json_elements(t, i, names) ==
  LET v == json_value(t, i)
      names2 == IF v.kind = "string"
                  THEN names \cup { SubSeq(t, i + 1, v.next - 2) } ELSE names
  IN  IF ~ v.ok \/ v.next > Len(t) THEN json_fail
      ELSE IF t[v.next] = "," THEN json_elements(t, v.next + 1, names2)
      ELSE IF t[v.next] = "]" THEN json_parsed(v.next + 1, "array", names2, "none")
      ELSE json_fail

json_members(t, i, names, sr) ==
  LET k == json_value(t, i)
  IN  IF ~ k.ok \/ k.kind # "string" \/ k.next > Len(t) THEN json_fail
      ELSE IF t[k.next] # ":" THEN json_fail
      ELSE LET key == SubSeq(t, i + 1, k.next - 2)
               v == json_value(t, k.next + 1)
               sr2 == IF key = << "searchResults" >> THEN v.kind ELSE sr
           IN  IF ~ v.ok \/ v.next > Len(t) THEN json_fail
               ELSE IF t[v.next] = "," THEN json_members(t, v.next + 1, names \cup {key}, sr2)
               ELSE IF t[v.next] = "}"
                 THEN json_parsed(v.next + 1, "object", names \cup {key}, sr2)
               ELSE json_fail

\* json.loads(text): the whole text must be one value
json_loads(t) ==
  LET v == json_value(t, 1)
  IN  IF v.ok /\ v.next = Len(t) + 1 THEN v ELSE json_fail

\* which print the try/except around json.loads ends with, for a successful
\* call of tool_name: a TypeError raised by the membership test, the indexing
\* or len() is caught by the same except as a parse error
parse_diag(tool_name, text) ==
  LET v == json_loads(text)
  IN  IF ~ v.ok THEN "could_not_parse"
      ELSE IF tool_name # "airbnb_search" THEN "snippet"
      ELSE IF v.kind \in {"number", "literal"} THEN "could_not_parse"
      ELSE IF << "searchResults" >> \notin v.names THEN "snippet"
      ELSE IF v.kind = "object" /\ v.sr \in {"array", "object", "string"}
        THEN "found_results"
      ELSE "could_not_parse"

\* what the diagnostic parse of a call_tool outcome prints last: nothing when
\* the call raised or reported an error; reading content[0] of an empty content
\* inside the inner try raises IndexError, which the inner except prints
diagnostic(tool_name, outcome) ==
  IF outcome.raised THEN "none"
  ELSE IF outcome.isError THEN "none"
  ELSE IF outcome.content = <<>> THEN "could_not_parse"
  ELSE parse_diag(tool_name, outcome.content[1].text)

user_message(text) == [role |-> "user", ctype |-> "str", content |-> text]

\* variant: the request turn is given the tool's name as its id
tool_use_message_name_as_id(block) ==
  [role |-> "assistant", ctype |-> "list",
   content |-> << [type |-> "tool_use", name |-> block.name, id |-> block.name,
                   input |-> block.input] >>]

tool_use_message(block) ==
  [role |-> "assistant", ctype |-> "list",
   content |-> << [type |-> "tool_use", name |-> block.name, id |-> block.id,
                   input |-> block.input] >>]

\* variant: the result turn is keyed by the tool's name instead of the call id
tool_result_message_by_name(block, output) ==
  [role |-> "user", ctype |-> "list",
   content |-> << [type |-> "tool_result", tool_use_id |-> block.name,
                   content |-> json_dumps(output)] >>]

tool_result_message(block, output) ==
  [role |-> "user", ctype |-> "list",
   content |-> << [type |-> "tool_result", tool_use_id |-> block.id,
                   content |-> json_dumps(output)] >>]

-----------------------------------------------------------------------------
(* State *)

VARIABLES
  prog,             \* which program runs: "simple_mcp" or "testmcp"
  pc,               \* position of the run in the program
  claude_tools,     \* tool declarations built from list_tools
  response,         \* response.content of the last LLM response received
  conversation,     \* the conversation list
  tool_call_count,  \* simple_mcp's budget counter
  tool_output,      \* the tool_output dict of the current round
  final_text,       \* the text the run returns
  messages,         \* messages argument of the last LLM call issued
  tool_calls,       \* history: (name, input) of every session.call_tool invocation
  list_tools_calls, \* history: number of session.list_tools invocations
  faults,           \* history: consecutive faulted attempts of the outstanding LLM call
  sleeps,           \* history: asyncio.sleep durations of the current round
  op,               \* history: the operation the last step performed
  fault,            \* origin of the exception that left the run, "none" if none
  outcome,          \* history: what the last session.call_tool invocation did
  diag,             \* history: what the diagnostic parse of its result printed
  tools,            \* tools argument of the last LLM call issued
  script,           \* the mocked services' script of the run, no_script if they are free
  runs,             \* app.py: the locals of each request's agent_loop coroutine
  threads,          \* app.py: each request's background thread
  capture,          \* app.py: the module-level CaptureOutput object
  print_fn,         \* app.py: what builtins.print is bound to
  search_status,    \* nl_app.py: the module-level search_status dict
  search_results,   \* nl_app.py: the module-level search_results dict
  debug_logs,       \* nl_app.py: the list bound to debug_logs
  log_subscribers,  \* nl_app.py: the list of SSE subscribers
  log_lock,         \* nl_app.py: the thread holding log_lock, 0 if it is free
  handler_lock,     \* nl_app.py: the re-entrant lock of debug_handler (Handler.handle)
  nl_runs,          \* nl_app.py: each /search request's run_nl_search thread
  emitters,         \* nl_app.py: the threads that log, each with its stack of emit calls
  sse               \* nl_app.py: the generators of /debug_logs_sse, one per client

vars == << prog, pc, claude_tools, response, conversation, tool_call_count,
           tool_output, final_text, messages, tool_calls, list_tools_calls,
           faults, sleeps, op, fault, outcome, diag, tools, script,
           runs, threads, capture, print_fn,
           search_status, search_results, debug_logs, log_subscribers,
           log_lock, handler_lock, nl_runs, emitters, sse >>

\* the state of simple_mcp.agent_loop / testmcp.agent_loop run on its own
progvars == << prog, pc, claude_tools, response, conversation, tool_call_count,
              tool_output, final_text, messages, tool_calls, list_tools_calls,
              faults, sleeps, op, fault, outcome, diag, tools >>

\* the state of app.py
appvars == << runs, threads, capture, print_fn >>

\* the state of nl_app.py
nlvars == << search_status, search_results, debug_logs, log_subscribers,
            log_lock, handler_lock, nl_runs, emitters, sse >>

no_output == [unset |-> <<>>]
no_outcome == [raised |-> FALSE, isError |-> FALSE, content |-> <<>>]

\* the services are not scripted: every call may return any of its values
no_script == [responses |-> <<>>, outcomes |-> <<>>]

\* app.py serves this many /search requests, each in a thread of its own
Requests == {1, 2}

\* builtins.print is the interpreter's print (0) or the custom_print closure
\* defined by the run_agent_with_capture invocation of request t (t)
original_print == 0

\* the prompt request t posts to /search
prompt_of(t) == IF t = 1 THEN prompt ELSE <<"a cabin near Oslo for a week">>

\* the locals of an agent_loop coroutine called with prompt p, before its
\* first LLM call; s scripts the services it talks to
new_run(p, s) ==
  [pc |-> "first_llm", prompt |-> p, script |-> s, response |-> <<>>,
   conversation |-> <<>>, tool_call_count |-> 0, tool_calls |-> <<>>,
   final_text |-> <<>>]

\* a request that has not been submitted
no_thread == [pc |-> "not_started", original_print |-> original_print,
              result |-> <<>>, printed |-> 0, submitted_during |-> {}]

\* CaptureOutput.__init__
new_capture == [logs |-> <<>>, final_result |-> <<>>]

\* the state of a single program before agent_loop's first statement
InitProgram ==
  /\ pc = "initialize"
  /\ claude_tools = <<>>
  /\ response = <<>>
  /\ conversation = <<>>
  /\ tool_call_count = 0
  /\ tool_output = no_output
  /\ final_text = <<>>
  /\ messages = <<>>
  /\ tool_calls = <<>>
  /\ list_tools_calls = 0
  /\ faults = 0
  /\ sleeps = <<>>
  /\ op = "start"
  /\ fault = "none"
  /\ outcome = no_outcome
  /\ diag = "none"
  /\ tools = <<>>

\* app.py at import time: capture = CaptureOutput(), no request yet
InitApp ==
  /\ runs = [t \in Requests |-> new_run(prompt_of(t), no_script)]
  /\ threads = [t \in Requests |-> no_thread]
  /\ capture = new_capture
  /\ print_fn = original_print

\* the text of query t
query_of(t) == IF t = 1 THEN "query 1" ELSE "query 2"

searching_status ==
  [status |-> "searching", message |-> <<"Searching for listings...">>, results |-> 0]
error_status(message) == [status |-> "error", message |-> message, results |-> 0]

\* search_results = {}
no_results == [query |-> "", results |-> 0]

Emitters == {1, 2}
Clients == {1, 2}

\* the module-level state after import; statuses is the history of the
\* terminal statuses a run has assigned, stack the emit calls a thread is in
InitNl ==
  /\ search_status = [status |-> "idle", message |-> <<>>, results |-> 0]
  /\ search_results = no_results
  /\ debug_logs = <<>>
  /\ log_subscribers = <<>>
  /\ log_lock = 0
  /\ handler_lock = [owner |-> 0, count |-> 0]
  /\ nl_runs = [t \in Requests |-> [pc |-> "not_started", statuses |-> <<>>]]
  /\ emitters = [e \in Emitters |-> [stack |-> <<>>]]
  /\ sse = [c \in Clients |-> [pc |-> "not_connected", filter |-> "all", pos |-> 0,
                                queue |-> <<>>, delivered |-> <<>>]]

Init ==
  /\ prog \in {"simple_mcp", "testmcp"}
  /\ InitProgram
  /\ script = no_script
  /\ InitApp
  /\ InitNl

-----------------------------------------------------------------------------
(* simple_mcp.agent_loop *)

\* variant: once the session is initialized the run goes to its first LLM call
simple_initialize_skips_discovery ==
  /\ prog = "simple_mcp" /\ pc = "initialize"
  /\ pc' = "first_llm"
  /\ op' = "initialize"
  /\ UNCHANGED << prog, claude_tools, response, conversation, tool_call_count,
                  tool_output, final_text, messages, tool_calls, list_tools_calls,
                  faults, sleeps, fault,
                  outcome, diag, tools, script, appvars, nlvars >>

\* await session.initialize() returns
simple_initialize ==
  /\ prog = "simple_mcp" /\ pc = "initialize"
  /\ pc' = "list_tools"
  /\ op' = "initialize"
  /\ UNCHANGED << prog, claude_tools, response, conversation, tool_call_count,
                  tool_output, final_text, messages, tool_calls, list_tools_calls,
                  faults, sleeps, fault,
                  outcome, diag, tools, script, appvars, nlvars >>

\* await session.initialize() raises: nothing catches it
simple_initialize_raises ==
  /\ prog = "simple_mcp" /\ pc = "initialize"
  /\ pc' = "raised"
  /\ fault' = "initialize"
  /\ op' = "initialize"
  /\ UNCHANGED << prog, claude_tools, response, conversation, tool_call_count,
                  tool_output, final_text, messages, tool_calls, list_tools_calls,
                  faults, sleeps,
                  outcome, diag, tools, script, appvars, nlvars >>

\* mcp_tools = await session.list_tools(); claude_tools = [...]
simple_list_tools ==
  /\ prog = "simple_mcp" /\ pc = "list_tools"
  /\ list_tools_calls' = list_tools_calls + 1
  /\ claude_tools' = to_claude_tools(mcp_tools)
  /\ pc' = "first_llm"
  /\ op' = "list_tools"
  /\ UNCHANGED << prog, response, conversation, tool_call_count, tool_output,
                  final_text, messages, tool_calls, faults, sleeps, fault,
                  outcome, diag, tools, script, appvars, nlvars >>

\* variant: the fault of list_tools is swallowed and the run goes on without tools
simple_list_tools_raises_swallowed ==
  /\ prog = "simple_mcp" /\ pc = "list_tools"
  /\ list_tools_calls' = list_tools_calls + 1
  /\ claude_tools' = <<>>
  /\ pc' = "first_llm"
  /\ fault' = "list_tools"
  /\ op' = "list_tools"
  /\ UNCHANGED << prog, response, conversation, tool_call_count, tool_output,
                  final_text, messages, tool_calls, faults, sleeps, outcome, diag, tools, script, appvars, nlvars >>

\* await session.list_tools() raises: nothing catches it
simple_list_tools_raises ==
  /\ prog = "simple_mcp" /\ pc = "list_tools"
  /\ list_tools_calls' = list_tools_calls + 1
  /\ pc' = "raised"
  /\ fault' = "list_tools"
  /\ op' = "list_tools"
  /\ UNCHANGED << prog, claude_tools, response, conversation, tool_call_count,
                  tool_output, final_text, messages, tool_calls, faults, sleeps,
                  outcome, diag, tools, script, appvars, nlvars >>

\* the first client.messages.create returns; conversation and the counter are set up
simple_first_llm ==
  /\ prog = "simple_mcp" /\ pc = "first_llm"
  /\ messages' = << user_message(prompt) >>
  /\ tools' = claude_tools
  /\ \E r \in Responses : response' = r
  /\ conversation' = << user_message(prompt) >>
  /\ tool_call_count' = 0
  /\ faults' = 0
  /\ pc' = "while"
  /\ op' = "llm_call"
  /\ UNCHANGED << prog, claude_tools, tool_output, final_text, tool_calls,
                  list_tools_calls, sleeps, fault,
                  outcome, diag, script, appvars, nlvars >>

\* the first client.messages.create raises: it is outside any try
simple_first_llm_raises ==
  /\ prog = "simple_mcp" /\ pc = "first_llm"
  /\ messages' = << user_message(prompt) >>
  /\ tools' = claude_tools
  /\ faults' = faults + 1
  /\ pc' = "raised"
  /\ fault' = "llm"
  /\ op' = "llm_call"
  /\ UNCHANGED << prog, claude_tools, response, conversation, tool_call_count,
                  tool_output, final_text, tool_calls, list_tools_calls, sleeps,
                  outcome, diag, script, appvars, nlvars >>

\* variant: the sleep of 3 is taken before the first tool call too
simple_while_enter_always_sleeps ==
  /\ prog = "simple_mcp" /\ pc = "while"
  /\ simple_loop_cond(response, tool_call_count)
  /\ tool_call_count' = tool_call_count + 1
  /\ sleeps' = << 3 >>
  /\ pc' = "call_tool"
  /\ op' = "while"
  /\ UNCHANGED << prog, claude_tools, response, conversation, tool_output,
                  final_text, messages, tool_calls, list_tools_calls, faults, fault,
                  outcome, diag, tools, script, appvars, nlvars >>

\* the while test holds: count the call, sleep 3 before every call but the first
simple_while_enter ==
  /\ prog = "simple_mcp" /\ pc = "while"
  /\ simple_loop_cond(response, tool_call_count)
  /\ tool_call_count' = tool_call_count + 1
  /\ sleeps' = IF tool_call_count' > 1 THEN << 3 >> ELSE << >>
  /\ pc' = "call_tool"
  /\ op' = "while"
  /\ UNCHANGED << prog, claude_tools, response, conversation, tool_output,
                  final_text, messages, tool_calls, list_tools_calls, faults, fault,
                  outcome, diag, tools, script, appvars, nlvars >>

\* the while test fails: control reaches the code after the loop
simple_while_exit ==
  /\ prog = "simple_mcp" /\ pc = "while"
  /\ ~ simple_loop_cond(response, tool_call_count)
  /\ sleeps' = << >>
  /\ pc' = "final"
  /\ op' = "while"
  /\ UNCHANGED << prog, claude_tools, response, conversation, tool_call_count,
                  tool_output, final_text, messages, tool_calls, list_tools_calls,
                  faults, fault,
                  outcome, diag, tools, script, appvars, nlvars >>

\* variant: the diagnostic parse has no except of its own, a text that does
\* not parse is handled by the except around the call
simple_call_tool_from_parse_raises(outcomes) ==
  /\ prog = "simple_mcp" /\ pc = "call_tool"
  /\ LET block == first_tool_use(response)
     IN  /\ tool_calls' = Append(tool_calls, [name |-> block.name, input |-> block.input])
         /\ \E o \in outcomes :
              /\ outcome' = o
              /\ diag' = diagnostic(block.name, o)
              /\ tool_output' =
                   IF diagnostic(block.name, o) = "could_not_parse"
                     THEN [error |-> <<"Error making tool call: ", "Expecting value">>]
                     ELSE simple_tool_output(o)
  /\ pc' = "append"
  /\ op' = "call_tool"
  /\ UNCHANGED << prog, claude_tools, response, conversation, tool_call_count,
                  final_text, messages, list_tools_calls, faults, sleeps, fault,
                  tools, script, appvars, nlvars >>

\* variant: the tool-request turn is appended before the service is called
simple_call_tool_from_request_first(outcomes) ==
  /\ prog = "simple_mcp" /\ pc = "call_tool"
  /\ LET block == first_tool_use(response)
     IN  /\ tool_calls' = Append(tool_calls, [name |-> block.name, input |-> block.input])
         /\ conversation' = Append(conversation, tool_use_message(block))
         /\ \E o \in outcomes :
              /\ outcome' = o
              /\ diag' = diagnostic(block.name, o)
              /\ tool_output' = simple_tool_output(o)
  /\ pc' = "append"
  /\ op' = "call_tool"
  /\ UNCHANGED << prog, claude_tools, response, tool_call_count,
                  final_text, messages, list_tools_calls, faults, sleeps, fault,
                  tools, script, appvars, nlvars >>

\* await session.call_tool(tool_name, tool_input), inside try/except Exception:
\* whatever it does, tool_output is set
simple_call_tool_from(outcomes) ==
  /\ prog = "simple_mcp" /\ pc = "call_tool"
  /\ LET block == first_tool_use(response)
     IN  /\ tool_calls' = Append(tool_calls, [name |-> block.name, input |-> block.input])
         /\ \E o \in outcomes :
              /\ outcome' = o
              /\ diag' = diagnostic(block.name, o)
              /\ tool_output' = simple_tool_output(o)
  /\ pc' = "append"
  /\ op' = "call_tool"
  /\ UNCHANGED << prog, claude_tools, response, conversation, tool_call_count,
                  final_text, messages, list_tools_calls, faults, sleeps, fault,
                  tools, script, appvars, nlvars >>

simple_call_tool == simple_call_tool_from(ToolOutcomes)

\* variant: only the user prompt and the latest request/result pair are kept
simple_append_keeps_latest ==
  /\ prog = "simple_mcp" /\ pc = "append"
  /\ LET block == first_tool_use(response)
     IN  conversation' = << conversation[1], tool_use_message(block),
                            tool_result_message(block, tool_output) >>
  /\ pc' = "llm_call"
  /\ op' = "append"
  /\ UNCHANGED << prog, claude_tools, response, tool_call_count, tool_output,
                  final_text, messages, tool_calls, list_tools_calls, faults,
                  sleeps, fault, outcome, diag, tools, script, appvars, nlvars >>

\* the two conversation.append calls, then break out of the for loop
simple_append ==
  /\ prog = "simple_mcp" /\ pc = "append"
  /\ LET block == first_tool_use(response)
     IN  conversation' = conversation \o << tool_use_message(block),
                                            tool_result_message(block, tool_output) >>
  /\ pc' = "llm_call"
  /\ op' = "append"
  /\ UNCHANGED << prog, claude_tools, response, tool_call_count, tool_output,
                  final_text, messages, tool_calls, list_tools_calls, faults,
                  sleeps, fault,
                  outcome, diag, tools, script, appvars, nlvars >>

\* sleep 2, then client.messages.create(messages=conversation) returns
simple_llm_call ==
  /\ prog = "simple_mcp" /\ pc = "llm_call"
  /\ sleeps' = Append(sleeps, 2)
  /\ messages' = conversation
  /\ tools' = claude_tools
  /\ \E r \in Responses : response' = r
  /\ faults' = 0
  /\ pc' = "while"
  /\ op' = "llm_call"
  /\ UNCHANGED << prog, claude_tools, conversation, tool_call_count, tool_output,
                  final_text, tool_calls, list_tools_calls, fault,
                  outcome, diag, script, appvars, nlvars >>

\* variant: a failed LLM call is counted against the tool budget
simple_llm_call_raises_counted ==
  /\ prog = "simple_mcp" /\ pc = "llm_call"
  /\ sleeps' = sleeps \o << 2, 5 >>
  /\ messages' = conversation
  /\ tools' = claude_tools
  /\ faults' = faults + 1
  /\ tool_call_count' = tool_call_count + 1
  /\ pc' = "llm_retry"
  /\ op' = "llm_call"
  /\ UNCHANGED << prog, claude_tools, response, conversation,
                  tool_output, final_text, tool_calls, list_tools_calls, fault,
                  outcome, diag, script, appvars, nlvars >>

\* sleep 2, then client.messages.create raises: except Exception, sleep 5
simple_llm_call_raises ==
  /\ prog = "simple_mcp" /\ pc = "llm_call"
  /\ sleeps' = sleeps \o << 2, 5 >>
  /\ messages' = conversation
  /\ tools' = claude_tools
  /\ faults' = faults + 1
  /\ pc' = "llm_retry"
  /\ op' = "llm_call"
  /\ UNCHANGED << prog, claude_tools, response, conversation, tool_call_count,
                  tool_output, final_text, tool_calls, list_tools_calls, fault,
                  outcome, diag, script, appvars, nlvars >>

\* variant: the retry sends the messages list of the first call, not conversation
simple_llm_retry_first_messages ==
  /\ prog = "simple_mcp" /\ pc = "llm_retry"
  /\ messages' = << user_message(prompt) >>
  /\ tools' = claude_tools
  /\ \E r \in Responses : response' = r
  /\ faults' = 0
  /\ pc' = "while"
  /\ op' = "llm_retry"
  /\ UNCHANGED << prog, claude_tools, conversation, tool_call_count, tool_output,
                  final_text, tool_calls, list_tools_calls, sleeps, fault,
                  outcome, diag, script, appvars, nlvars >>

\* the retry client.messages.create(messages=conversation) returns
simple_llm_retry ==
  /\ prog = "simple_mcp" /\ pc = "llm_retry"
  /\ messages' = conversation
  /\ tools' = claude_tools
  /\ \E r \in Responses : response' = r
  /\ faults' = 0
  /\ pc' = "while"
  /\ op' = "llm_retry"
  /\ UNCHANGED << prog, claude_tools, conversation, tool_call_count, tool_output,
                  final_text, tool_calls, list_tools_calls, sleeps, fault,
                  outcome, diag, script, appvars, nlvars >>

\* variant: after a failed retry the call is started over instead of leaving the loop
simple_llm_retry_raises_starts_over ==
  /\ prog = "simple_mcp" /\ pc = "llm_retry"
  /\ messages' = conversation
  /\ tools' = claude_tools
  /\ faults' = 0
  /\ sleeps' = SubSeq(sleeps, 1, Len(sleeps) - 2)
  /\ pc' = "llm_call"
  /\ op' = "llm_retry"
  /\ UNCHANGED << prog, claude_tools, response, conversation, tool_call_count,
                  tool_output, final_text, tool_calls, list_tools_calls, fault,
                  outcome, diag, script, appvars, nlvars >>

\* the retry raises: except Exception as e2, break out of the while loop
simple_llm_retry_raises ==
  /\ prog = "simple_mcp" /\ pc = "llm_retry"
  /\ messages' = conversation
  /\ tools' = claude_tools
  /\ faults' = faults + 1
  /\ pc' = "final"
  /\ op' = "llm_retry"
  /\ UNCHANGED << prog, claude_tools, response, conversation, tool_call_count,
                  tool_output, final_text, tool_calls, list_tools_calls, sleeps, fault,
                  outcome, diag, script, appvars, nlvars >>

\* variant: a run stopped by the budget returns no text
simple_return_empty_on_budget ==
  /\ prog = "simple_mcp" /\ pc = "final"
  /\ final_text' = IF tool_call_count >= max_tool_calls THEN <<>>
                   ELSE final_text_of(response)
  /\ pc' = "done"
  /\ op' = "return"
  /\ UNCHANGED << prog, claude_tools, response, conversation, tool_call_count,
                  tool_output, messages, tool_calls, list_tools_calls, faults,
                  sleeps, fault, outcome, diag, tools, script, appvars, nlvars >>

\* variant: the final response is stored as an assistant turn before returning
simple_return_stores_response ==
  /\ prog = "simple_mcp" /\ pc = "final"
  /\ final_text' = final_text_of(response)
  /\ conversation' = Append(conversation,
                            [role |-> "assistant", ctype |-> "list", content |-> response])
  /\ pc' = "done"
  /\ op' = "return"
  /\ UNCHANGED << prog, claude_tools, response, tool_call_count,
                  tool_output, messages, tool_calls, list_tools_calls, faults,
                  sleeps, fault, outcome, diag, tools, script, appvars, nlvars >>

\* final_text is built from response.content and returned
simple_return ==
  /\ prog = "simple_mcp" /\ pc = "final"
  /\ final_text' = final_text_of(response)
  /\ pc' = "done"
  /\ op' = "return"
  /\ UNCHANGED << prog, claude_tools, response, conversation, tool_call_count,
                  tool_output, messages, tool_calls, list_tools_calls, faults,
                  sleeps, fault,
                  outcome, diag, tools, script, appvars, nlvars >>

simple_Next ==
  \/ simple_initialize \/ simple_initialize_raises
  \/ simple_list_tools \/ simple_list_tools_raises
  \/ simple_first_llm \/ simple_first_llm_raises
  \/ simple_while_enter \/ simple_while_exit
  \/ simple_call_tool \/ simple_append
  \/ simple_llm_call \/ simple_llm_call_raises
  \/ simple_llm_retry \/ simple_llm_retry_raises
  \/ simple_return

-----------------------------------------------------------------------------
(* testmcp.agent_loop and testmcp.process_claude_response *)

\* await session.initialize() returns
testmcp_initialize ==
  /\ prog = "testmcp" /\ pc = "initialize"
  /\ pc' = "list_tools"
  /\ op' = "initialize"
  /\ UNCHANGED << prog, claude_tools, response, conversation, tool_call_count,
                  tool_output, final_text, messages, tool_calls, list_tools_calls,
                  faults, sleeps, fault,
                  outcome, diag, tools, script, appvars, nlvars >>

\* await session.initialize() raises
testmcp_initialize_raises ==
  /\ prog = "testmcp" /\ pc = "initialize"
  /\ pc' = "raised"
  /\ fault' = "initialize"
  /\ op' = "initialize"
  /\ UNCHANGED << prog, claude_tools, response, conversation, tool_call_count,
                  tool_output, final_text, messages, tool_calls, list_tools_calls,
                  faults, sleeps,
                  outcome, diag, tools, script, appvars, nlvars >>

\* mcp_tools = await session.list_tools(); claude_tools = [...]
testmcp_list_tools ==
  /\ prog = "testmcp" /\ pc = "list_tools"
  /\ list_tools_calls' = list_tools_calls + 1
  /\ claude_tools' = to_claude_tools(mcp_tools)
  /\ pc' = "first_llm"
  /\ op' = "list_tools"
  /\ UNCHANGED << prog, response, conversation, tool_call_count, tool_output,
                  final_text, messages, tool_calls, faults, sleeps, fault,
                  outcome, diag, tools, script, appvars, nlvars >>

\* await session.list_tools() raises
testmcp_list_tools_raises ==
  /\ prog = "testmcp" /\ pc = "list_tools"
  /\ list_tools_calls' = list_tools_calls + 1
  /\ pc' = "raised"
  /\ fault' = "list_tools"
  /\ op' = "list_tools"
  /\ UNCHANGED << prog, claude_tools, response, conversation, tool_call_count,
                  tool_output, final_text, messages, tool_calls, faults, sleeps,
                  outcome, diag, tools, script, appvars, nlvars >>

\* agent_loop's client.messages.create returns; process_claude_response starts
\* and initialises conversation
testmcp_first_llm ==
  /\ prog = "testmcp" /\ pc = "first_llm"
  /\ messages' = << user_message(prompt) >>
  /\ tools' = claude_tools
  /\ \E r \in Responses : response' = r
  /\ conversation' = << user_message(prompt) >>
  /\ faults' = 0
  /\ pc' = "while"
  /\ op' = "llm_call"
  /\ UNCHANGED << prog, claude_tools, tool_call_count, tool_output, final_text,
                  tool_calls, list_tools_calls, sleeps, fault,
                  outcome, diag, script, appvars, nlvars >>

\* agent_loop's client.messages.create raises
testmcp_first_llm_raises ==
  /\ prog = "testmcp" /\ pc = "first_llm"
  /\ messages' = << user_message(prompt) >>
  /\ tools' = claude_tools
  /\ faults' = faults + 1
  /\ pc' = "raised"
  /\ fault' = "llm"
  /\ op' = "llm_call"
  /\ UNCHANGED << prog, claude_tools, response, conversation, tool_call_count,
                  tool_output, final_text, tool_calls, list_tools_calls, sleeps,
                  outcome, diag, script, appvars, nlvars >>

\* the while test holds (the model follows the loop for MaxRounds rounds)
testmcp_while_enter_upto(rounds) ==
  /\ prog = "testmcp" /\ pc = "while"
  /\ testmcp_loop_cond(response)
  /\ Len(tool_calls) < rounds
  /\ pc' = "call_tool"
  /\ op' = "while"
  /\ UNCHANGED << prog, claude_tools, response, conversation, tool_call_count,
                  tool_output, final_text, messages, tool_calls, list_tools_calls,
                  faults, sleeps, fault,
                  outcome, diag, tools, script, appvars, nlvars >>

testmcp_while_enter == testmcp_while_enter_upto(MaxRounds)

\* the while test fails
testmcp_while_exit ==
  /\ prog = "testmcp" /\ pc = "while"
  /\ ~ testmcp_loop_cond(response)
  /\ pc' = "final"
  /\ op' = "while"
  /\ UNCHANGED << prog, claude_tools, response, conversation, tool_call_count,
                  tool_output, final_text, messages, tool_calls, list_tools_calls,
                  faults, sleeps, fault,
                  outcome, diag, tools, script, appvars, nlvars >>

\* await session.call_tool(tool_name, tool_input) returns; tool_output is read from it
testmcp_call_tool_from(outcomes) ==
  /\ prog = "testmcp" /\ pc = "call_tool"
  /\ LET block == first_tool_use(response)
     IN  /\ tool_calls' = Append(tool_calls, [name |-> block.name, input |-> block.input])
         /\ \E o \in outcomes :
              /\ ~ o.raised /\ o.content # <<>>
              /\ outcome' = o
              /\ diag' = diagnostic(block.name, o)
              /\ tool_output' = testmcp_tool_output(o)
  /\ pc' = "append"
  /\ op' = "call_tool"
  /\ UNCHANGED << prog, claude_tools, response, conversation, tool_call_count,
                  final_text, messages, list_tools_calls, faults, sleeps, fault,
                  tools, script, appvars, nlvars >>

testmcp_call_tool == testmcp_call_tool_from(ToolOutcomes)

\* await session.call_tool(tool_name, tool_input) raises, or the reading of
\* content[0] of the value it returned does: there is no try
testmcp_call_tool_raises_from(outcomes) ==
  /\ prog = "testmcp" /\ pc = "call_tool"
  /\ LET block == first_tool_use(response)
     IN  /\ tool_calls' = Append(tool_calls, [name |-> block.name, input |-> block.input])
         /\ \E o \in outcomes :
              /\ IF o.raised THEN TRUE ELSE o.content = <<>>
              /\ outcome' = o
              /\ diag' = diagnostic(block.name, o)
  /\ pc' = "raised"
  /\ fault' = "call_tool"
  /\ op' = "call_tool"
  /\ UNCHANGED << prog, claude_tools, response, conversation, tool_call_count,
                  tool_output, final_text, messages, list_tools_calls, faults, sleeps,
                  tools, script, appvars, nlvars >>

testmcp_call_tool_raises == testmcp_call_tool_raises_from(ToolOutcomes)

\* the two conversation.append calls, then break out of the for loop
testmcp_append ==
  /\ prog = "testmcp" /\ pc = "append"
  /\ LET block == first_tool_use(response)
     IN  conversation' = conversation \o << tool_use_message(block),
                                            tool_result_message(block, tool_output) >>
  /\ pc' = "llm_call"
  /\ op' = "append"
  /\ UNCHANGED << prog, claude_tools, response, tool_call_count, tool_output,
                  final_text, messages, tool_calls, list_tools_calls, faults,
                  sleeps, fault,
                  outcome, diag, tools, script, appvars, nlvars >>

\* client.messages.create(messages=conversation) returns
testmcp_llm_call ==
  /\ prog = "testmcp" /\ pc = "llm_call"
  /\ messages' = conversation
  /\ tools' = claude_tools
  /\ \E r \in Responses : response' = r
  /\ faults' = 0
  /\ pc' = "while"
  /\ op' = "llm_call"
  /\ UNCHANGED << prog, claude_tools, conversation, tool_call_count, tool_output,
                  final_text, tool_calls, list_tools_calls, sleeps, fault,
                  outcome, diag, script, appvars, nlvars >>

\* client.messages.create(messages=conversation) raises: there is no try
testmcp_llm_call_raises ==
  /\ prog = "testmcp" /\ pc = "llm_call"
  /\ messages' = conversation
  /\ tools' = claude_tools
  /\ faults' = faults + 1
  /\ pc' = "raised"
  /\ fault' = "llm"
  /\ op' = "llm_call"
  /\ UNCHANGED << prog, claude_tools, response, conversation, tool_call_count,
                  tool_output, final_text, tool_calls, list_tools_calls, sleeps,
                  outcome, diag, script, appvars, nlvars >>

\* final_text is built; {"content": final_text, "conversation": conversation} is returned
testmcp_return ==
  /\ prog = "testmcp" /\ pc = "final"
  /\ final_text' = final_text_of(response)
  /\ pc' = "done"
  /\ op' = "return"
  /\ UNCHANGED << prog, claude_tools, response, conversation, tool_call_count,
                  tool_output, messages, tool_calls, list_tools_calls, faults,
                  sleeps, fault,
                  outcome, diag, tools, script, appvars, nlvars >>

testmcp_Next ==
  \/ testmcp_initialize \/ testmcp_initialize_raises
  \/ testmcp_list_tools \/ testmcp_list_tools_raises
  \/ testmcp_first_llm \/ testmcp_first_llm_raises
  \/ testmcp_while_enter \/ testmcp_while_exit
  \/ testmcp_call_tool \/ testmcp_call_tool_raises
  \/ testmcp_append
  \/ testmcp_llm_call \/ testmcp_llm_call_raises
  \/ testmcp_return

-----------------------------------------------------------------------------
Next == simple_Next \/ testmcp_Next

Spec == Init /\ [][Next]_vars

\* Every await of simple_mcp.agent_loop eventually returns or raises and the
\* code between two awaits runs to the next one: a step of the run that can be
\* taken is eventually taken.
LiveSpec == Init /\ [][Next]_vars /\ WF_vars(simple_Next)

\* Scenario B: the runs in which the mocked LLM answers its first call with a
\* response holding exactly one tool_use block and its second with text only.
OneToolResponses ==
  { r \in Responses : Cardinality({ i \in 1..Len(r) : r[i].type = "tool_use" }) = 1 }

TextOnlyResponses ==
  { r \in Responses : r # <<>> /\ \A i \in 1..Len(r) : r[i].type = "text" }

ScenarioB_Responses(n) == IF n = 1 THEN OneToolResponses ELSE TextOnlyResponses

\* a step of the program in which a response, if one is received, is the one
\* the scenario scripts for its position
NextB ==
  /\ Next
  /\ (pc' = "while" /\ op' \in {"llm_call", "llm_retry"}) =>
        response' \in ScenarioB_Responses(IF pc = "first_llm" THEN 1
                                          ELSE Len(tool_calls) + 1)

SpecB == Init /\ [][NextB]_vars

\* The values call_tool may return, in breadth: either flag, and a content of
\* 0..MaxContent elements whose texts are a JSON object holding searchResults,
\* a text that is not JSON, and JSON that is not a container.
MaxContent == 2

WideTexts ==
  { <<"{", "\"", "searchResults", "\"", ":", "[", "]", "}">>,
    <<"Listing not found">>,
    <<"42">> }

WideContents ==
  UNION { [1..n -> { [text |-> t] : t \in WideTexts }] : n \in 0..MaxContent }

WideToolOutcomes ==
  { Returned(e, c) : e \in BOOLEAN, c \in WideContents }
    \cup { Raised(<<"Connection closed">>) }

\* a step of the program in which call_tool does any of these, and the mocked
\* LLM answers every call after its first with text only
NextWide ==
  /\ \/ simple_initialize \/ simple_initialize_raises
     \/ simple_list_tools \/ simple_list_tools_raises
     \/ simple_first_llm \/ simple_first_llm_raises
     \/ simple_while_enter \/ simple_while_exit
     \/ simple_call_tool_from(WideToolOutcomes) \/ simple_append
     \/ simple_llm_call \/ simple_llm_call_raises
     \/ simple_llm_retry \/ simple_llm_retry_raises
     \/ simple_return
     \/ testmcp_initialize \/ testmcp_initialize_raises
     \/ testmcp_list_tools \/ testmcp_list_tools_raises
     \/ testmcp_first_llm \/ testmcp_first_llm_raises
     \/ testmcp_while_enter \/ testmcp_while_exit
     \/ testmcp_call_tool_from(WideToolOutcomes)
     \/ testmcp_call_tool_raises_from(WideToolOutcomes)
     \/ testmcp_append
     \/ testmcp_llm_call \/ testmcp_llm_call_raises
     \/ testmcp_return
  /\ (pc' = "while" /\ op' \in {"llm_call", "llm_retry"} /\ pc # "first_llm") =>
        response' \in TextOnlyResponses

SpecWide == Init /\ [][NextWide]_vars

\* Scripted services: the mocked LLM answers its k-th call with the k-th
\* response of the script and call_tool returns, for the n-th dispatch, the
\* n-th outcome of the script; no external call faults. A script holds up to
\* ScriptRequestsMax responses that request a tool and then one that does not.
ScriptRequestsMax == max_tool_calls

ScriptRequests == { <<Ta, U1>>, <<U2, U1>> }
ScriptClosings == { <<Tb, Ta>>, <<>> }

ScriptResponses ==
  UNION { { r \o << c >> : r \in [1..k -> ScriptRequests], c \in ScriptClosings } :
          k \in 0..ScriptRequestsMax }

OkResult == Returned(FALSE, << [text |-> <<"{", "\"", "searchResults", "\"", ":", "[", "]", "}">>] >>)
ErrorResult == Returned(TRUE, << [text |-> <<"Invalid dates">>] >>)
EmptyResult == Returned(FALSE, <<>>)

ScriptOutcomes ==
  { [n \in 1..ScriptRequestsMax |-> OkResult],
    [n \in 1..ScriptRequestsMax |-> IF n % 2 = 1 THEN ErrorResult ELSE OkResult],
    [n \in 1..ScriptRequestsMax |-> IF n = 2 THEN EmptyResult ELSE OkResult] }

Scripts == { [responses |-> r, outcomes |-> o] : r \in ScriptResponses, o \in ScriptOutcomes }

InitScript ==
  /\ prog \in {"simple_mcp", "testmcp"}
  /\ InitProgram
  /\ script \in Scripts
  /\ InitApp
  /\ InitNl

\* a step of either program in which no external call faults and the services
\* answer as the script says
NextScript ==
  /\ \/ simple_initialize \/ simple_list_tools \/ simple_first_llm
     \/ simple_while_enter \/ simple_while_exit
     \/ simple_call_tool_from({OkResult, ErrorResult, EmptyResult})
     \/ simple_append \/ simple_llm_call \/ simple_return
     \/ testmcp_initialize \/ testmcp_list_tools \/ testmcp_first_llm
     \/ testmcp_while_enter_upto(ScriptRequestsMax + 1) \/ testmcp_while_exit
     \/ testmcp_call_tool_from({OkResult, ErrorResult, EmptyResult})
     \/ testmcp_call_tool_raises_from({OkResult, ErrorResult, EmptyResult})
     \/ testmcp_append \/ testmcp_llm_call \/ testmcp_return
  /\ (op' = "llm_call") => response' = script.responses[Len(tool_calls) + 1]
  /\ (op' = "call_tool") => outcome' = script.outcomes[Len(tool_calls')]

SpecScript == InitScript /\ [][NextScript]_vars

\* simple_mcp's loop as a function of the script: the tool calls it issues, the
\* conversation it builds and the text it returns, from the k-th response on
RECURSIVE simple_run_from(_, _, _, _)
simple_run_from(s, k, conv, calls) ==
  LET resp == s.responses[k]
  IN  IF simple_loop_cond(resp, Len(calls))
        THEN LET block == first_tool_use(resp)
                 output == simple_tool_output(s.outcomes[Len(calls) + 1])
             IN  simple_run_from(s, k + 1,
                                 conv \o << tool_use_message(block),
                                            tool_result_message(block, output) >>,
                                 Append(calls, [name |-> block.name, input |-> block.input]))
        ELSE [tool_calls |-> calls, conversation |-> conv,
              final_text |-> final_text_of(resp)]

simple_run(s) == simple_run_from(s, 1, << user_message(prompt) >>, <<>>)

-----------------------------------------------------------------------------
(* Concurrent runs of simple_mcp.agent_loop, one per /search request: each
   thread of app.search runs its own coroutine, whose locals are runs[t] *)

\* response = await client.messages.create(messages=[user turn], ...) returns;
\* conversation and tool_call_count are initialised
run_first_llm(t) ==
  /\ runs[t].pc = "first_llm"
  /\ runs' = [runs EXCEPT ![t] =
                [@ EXCEPT !.response = runs[t].script.responses[1],
                          !.conversation = << user_message(runs[t].prompt) >>,
                          !.tool_call_count = 0,
                          !.pc = "while"]]
  /\ UNCHANGED << progvars, script, nlvars, threads, capture, print_fn >>

\* variant: conversation is a module-level list that every run appends to
run_dispatch_shared_conversation(t) ==
  /\ runs[t].pc = "while"
  /\ simple_loop_cond(runs[t].response, runs[t].tool_call_count)
  /\ LET block == first_tool_use(runs[t].response)
         o == runs[t].script.outcomes[Len(runs[t].tool_calls) + 1]
         turns == << tool_use_message(block),
                     tool_result_message(block, simple_tool_output(o)) >>
     IN  runs' = [u \in Requests |->
                    IF u = t
                      THEN [runs[t] EXCEPT
                              !.tool_call_count = @ + 1,
                              !.tool_calls = Append(@, [name |-> block.name,
                                                        input |-> block.input]),
                              !.conversation = @ \o turns,
                              !.pc = "llm_call"]
                      ELSE [runs[u] EXCEPT !.conversation = @ \o turns]]
  /\ UNCHANGED << progvars, script, nlvars, threads, capture, print_fn >>

\* one round of the while loop up to its LLM call: the test holds, the counter
\* is incremented, call_tool is awaited, the two turns are appended
run_dispatch(t) ==
  /\ runs[t].pc = "while"
  /\ simple_loop_cond(runs[t].response, runs[t].tool_call_count)
  /\ LET block == first_tool_use(runs[t].response)
         o == runs[t].script.outcomes[Len(runs[t].tool_calls) + 1]
         turns == << tool_use_message(block),
                     tool_result_message(block, simple_tool_output(o)) >>
     IN  runs' = [runs EXCEPT ![t] =
                    [@ EXCEPT !.tool_call_count = @ + 1,
                              !.tool_calls = Append(@, [name |-> block.name,
                                                        input |-> block.input]),
                              !.conversation = @ \o turns,
                              !.pc = "llm_call"]]
  /\ UNCHANGED << progvars, script, nlvars, threads, capture, print_fn >>

\* response = await client.messages.create(messages=conversation, ...) returns
run_llm_call(t) ==
  /\ runs[t].pc = "llm_call"
  /\ runs' = [runs EXCEPT ![t] =
                [@ EXCEPT !.response =
                             runs[t].script.responses[Len(runs[t].tool_calls) + 1],
                          !.pc = "while"]]
  /\ UNCHANGED << progvars, script, nlvars, threads, capture, print_fn >>

\* the while test fails: the final text is built and returned
run_return(t) ==
  /\ runs[t].pc = "while"
  /\ ~ simple_loop_cond(runs[t].response, runs[t].tool_call_count)
  /\ runs' = [runs EXCEPT ![t] =
                [@ EXCEPT !.final_text = final_text_of(runs[t].response),
                          !.pc = "done"]]
  /\ UNCHANGED << progvars, script, nlvars, threads, capture, print_fn >>

\* the scripts of the concurrent runs: up to MaxConcurrentRounds dispatches
MaxConcurrentRounds == 2

ConcurrentScripts == { s \in Scripts : Len(s.responses) <= MaxConcurrentRounds + 1 }

InitConcurrent ==
  /\ prog = "simple_mcp"
  /\ InitProgram
  /\ script = no_script
  /\ \E f \in [Requests -> ConcurrentScripts] :
        runs = [t \in Requests |-> new_run(prompt_of(t), f[t])]
  /\ threads = [t \in Requests |-> no_thread]
  /\ capture = new_capture
  /\ print_fn = original_print
  /\ InitNl

NextConcurrent ==
  \E t \in Requests :
     \/ run_first_llm(t) \/ run_dispatch(t) \/ run_llm_call(t) \/ run_return(t)

SpecConcurrent == InitConcurrent /\ [][NextConcurrent]_vars

-----------------------------------------------------------------------------
(* app.py: /search starts a thread that runs run_agent_with_capture; the
   threads share the module-level capture object and builtins.print. A step
   is what one thread does between two points where another may run. *)

\* a log line, with the request whose thread emitted it (history)
LogLine(t, text) == [run |-> t, line |-> text]

\* the texts of the lines, each a sequence of pieces (the pieces /status looks
\* for are pieces of their own)
RunningLine == << "Running agent loop with prompt: ", "prompt" >>
ProgressLine == << "Received response from Claude" >>
AgentCompletedLine ==
  << "Claude has completed all tool calls", " and provided a final response." >>
ResultReceivedLine == << "Final result received", ": ", "N", " characters" >>
CompletedLine ==
  << "Claude has completed all tool calls", " and provided the final response." >>
EmptyResultLine == << "Warning: Empty result received from Claude" >>
NoResultsMessage == <<"No results found. Please try a different search.">>

\* CaptureOutput.add_log (current_output, the same lines joined, is left out)
add_log(c, entry) == [c EXCEPT !.logs = Append(@, entry)]

\* CaptureOutput.set_result
set_result(c, result) == [c EXCEPT !.final_result = result]

\* CaptureOutput.clear
clear(c) == [c EXCEPT !.logs = <<>>, !.final_result = <<>>]

\* the custom_print closures a call of the function bound to builtins.print
\* goes through: custom_print of request b logs, then calls the
\* original_print its invocation saved
RECURSIVE custom_prints(_)
custom_prints(b) ==
  IF b = original_print THEN <<>>
  ELSE << b >> \o custom_prints(threads[b].original_print)

\* print(text) called by the thread of request t
builtins_print(c, t, text) ==
  [c EXCEPT !.logs = @ \o [i \in 1..Len(custom_prints(print_fn)) |-> LogLine(t, text)]]

\* what agent_loop may return to app.py
AgentResults == { final_text_of(r) : r \in {<<>>, <<Ta>>, <<Ta, Tb>>} }

\* the lines agent_loop prints before its last one are followed up to this many
MaxAgentLines == 1

\* POST /search: thread.start(). Requests are numbered in the order in which
\* they are submitted; submitted_during is the set of requests whose thread is
\* running at that moment (history).
search(t) ==
  /\ threads[t].pc = "not_started"
  /\ \A u \in Requests : u < t => threads[u].pc # "not_started"
  /\ threads' = [threads EXCEPT
                   ![t].pc = "clear",
                   ![t].submitted_during =
                      { u \in Requests : threads[u].pc \notin {"not_started", "ended"} }]
  /\ UNCHANGED << progvars, script, nlvars, runs, capture, print_fn >>

\* capture.clear()
app_clear(t) ==
  /\ threads[t].pc = "clear"
  /\ capture' = clear(capture)
  /\ threads' = [threads EXCEPT ![t].pc = "save_print"]
  /\ UNCHANGED << progvars, script, nlvars, runs, print_fn >>

\* original_print = builtins.print
app_save_print(t) ==
  /\ threads[t].pc = "save_print"
  /\ threads' = [threads EXCEPT ![t].original_print = print_fn,
                                ![t].pc = "replace_print"]
  /\ UNCHANGED << progvars, script, nlvars, runs, capture, print_fn >>

\* builtins.print = custom_print
app_replace_print(t) ==
  /\ threads[t].pc = "replace_print"
  /\ print_fn' = t
  /\ threads' = [threads EXCEPT ![t].pc = "open"]
  /\ UNCHANGED << progvars, script, nlvars, runs, capture >>

\* the two async with blocks are entered; capture.add_log("Running agent loop ...")
app_open(t) ==
  /\ threads[t].pc = "open"
  /\ capture' = add_log(capture, LogLine(t, RunningLine))
  /\ threads' = [threads EXCEPT ![t].pc = "agent"]
  /\ UNCHANGED << progvars, script, nlvars, runs, print_fn >>

\* stdio_client or ClientSession raises
app_open_raises(t) ==
  /\ threads[t].pc = "open"
  /\ threads' = [threads EXCEPT ![t].pc = "finally"]
  /\ UNCHANGED << progvars, script, nlvars, runs, capture, print_fn >>

\* agent_loop prints a line
app_agent_print(t) ==
  /\ threads[t].pc = "agent"
  /\ threads[t].printed < MaxAgentLines
  /\ capture' = builtins_print(capture, t, ProgressLine)
  /\ threads' = [threads EXCEPT ![t].printed = @ + 1]
  /\ UNCHANGED << progvars, script, nlvars, runs, print_fn >>

\* agent_loop prints its last line and returns final_text
app_agent_returns(t) ==
  /\ threads[t].pc = "agent"
  /\ capture' = builtins_print(capture, t, AgentCompletedLine)
  /\ \E r \in AgentResults :
        threads' = [threads EXCEPT ![t].result = r, ![t].pc = "check_result"]
  /\ UNCHANGED << progvars, script, nlvars, runs, print_fn >>

\* agent_loop raises (a start-up fault or a fault of the first LLM call)
app_agent_raises(t) ==
  /\ threads[t].pc = "agent"
  /\ threads' = [threads EXCEPT ![t].pc = "finally"]
  /\ UNCHANGED << progvars, script, nlvars, runs, capture, print_fn >>

\* if result: add_log("Final result received ...") else: add_log("Warning: ...")
app_log_result(t) ==
  /\ threads[t].pc = "check_result"
  /\ capture' = add_log(capture,
                        LogLine(t, IF threads[t].result # <<>>
                                     THEN ResultReceivedLine ELSE EmptyResultLine))
  /\ threads' = [threads EXCEPT ![t].pc = "set_result"]
  /\ UNCHANGED << progvars, script, nlvars, runs, print_fn >>

\* variant: the result is stored as it is, empty or not
app_set_result_as_returned(t) ==
  /\ threads[t].pc = "set_result"
  /\ capture' = set_result(capture, threads[t].result)
  /\ threads' = [threads EXCEPT ![t].pc = IF threads[t].result # <<>>
                                            THEN "log_completed" ELSE "finally"]
  /\ UNCHANGED << progvars, script, nlvars, runs, print_fn >>

\* capture.set_result(result), or capture.set_result("No results found. ...")
app_set_result(t) ==
  /\ threads[t].pc = "set_result"
  /\ capture' = set_result(capture, IF threads[t].result # <<>>
                                      THEN threads[t].result ELSE NoResultsMessage)
  /\ threads' = [threads EXCEPT ![t].pc = IF threads[t].result # <<>>
                                            THEN "log_completed" ELSE "finally"]
  /\ UNCHANGED << progvars, script, nlvars, runs, print_fn >>

\* capture.add_log("Claude has completed all tool calls and provided the final response.")
app_log_completed(t) ==
  /\ threads[t].pc = "log_completed"
  /\ capture' = add_log(capture, LogLine(t, CompletedLine))
  /\ threads' = [threads EXCEPT ![t].pc = "finally"]
  /\ UNCHANGED << progvars, script, nlvars, runs, print_fn >>

\* finally: builtins.print = original_print; the thread ends
app_finally(t) ==
  /\ threads[t].pc = "finally"
  /\ print_fn' = threads[t].original_print
  /\ threads' = [threads EXCEPT ![t].pc = "ended"]
  /\ UNCHANGED << progvars, script, nlvars, runs, capture >>

\* log in log_text
contains(log_text, log) == \E i \in 1..Len(log_text) : log_text[i] = log

\* GET /status: what the handler answers in the current state (current_output
\* and result_length are left out)
status ==
  [ logs         |-> [i \in 1..Len(capture.logs) |-> capture.logs[i].line],
    final_result |-> capture.final_result,
    done         |-> \/ capture.final_result # <<>>
                     \/ \E i \in 1..Len(capture.logs) : \E log \in { "Claude has completed all tool calls", "Final result received" } :
                           contains(capture.logs[i].line, log) ]

InitAppRuns ==
  /\ prog = "simple_mcp"
  /\ InitProgram
  /\ script = no_script
  /\ InitApp
  /\ InitNl

NextApp ==
  \E t \in Requests :
     \/ search(t) \/ app_clear(t) \/ app_save_print(t) \/ app_replace_print(t)
     \/ app_open(t) \/ app_open_raises(t)
     \/ app_agent_print(t) \/ app_agent_returns(t) \/ app_agent_raises(t)
     \/ app_log_result(t) \/ app_set_result(t) \/ app_log_completed(t)
     \/ app_finally(t)

SpecApp == InitAppRuns /\ [][NextApp]_vars

\* the steps of the thread of request t
run_background_task(t) ==
  \/ app_clear(t) \/ app_save_print(t) \/ app_replace_print(t)
  \/ app_open(t) \/ app_open_raises(t)
  \/ app_agent_print(t) \/ app_agent_returns(t) \/ app_agent_raises(t)
  \/ app_log_result(t) \/ app_set_result(t) \/ app_log_completed(t)
  \/ app_finally(t)

\* Every started thread keeps being scheduled, and every await of
\* run_agent_with_capture eventually returns or raises.
LiveSpecApp ==
  SpecApp /\ \A t \in Requests : WF_vars(run_background_task(t))

-----------------------------------------------------------------------------
(* nl_app.py: the module-level search_status, search_results and debug_logs,
   the DebugLogHandler installed on the root logger, the background threads
   started by /search and the generators of /debug_logs_sse. A step is what
   one thread does between two points where another may run. *)

\* a log_data dict; timestamp tells two entries with the same text apart
log_data(logs, level, message) ==
  [timestamp |-> Len(logs) + 1, level |-> level, message |-> message]

\* should_display_log(log, filter_type); x in message is tested on the pieces
\* of the message
should_display_log(log, filter_type) ==
  LET message == log.message
  IN  IF contains(message, "FORMATTED LISTING") \/ contains(message, "====================")
        THEN filter_type = "all" \/ filter_type = "mcp"
      ELSE IF filter_type = "all"
        THEN ~ ( /\ contains(message, "HTTP")
                 /\ \/ contains(message, "GET")
                    \/ contains(message, "POST")
                    \/ contains(message, "Response") )
      ELSE IF filter_type = "integration" /\ contains(message, "INTEGRATION:")
        THEN TRUE
      ELSE IF filter_type = "claude"
        THEN \/ contains(message, "Claude")
             \/ contains(message, "JSON")
             \/ contains(message, "parameter extraction")
      ELSE IF filter_type = "mcp"
        THEN \/ contains(message, "MCP")
             \/ contains(message, "search results")
             \/ contains(message, "listing")
             \/ contains(message, "LISTING")
             \/ contains(message, "FORMATTED LISTING")
      ELSE IF filter_type = "error"
        THEN log.level = "ERROR"
      ELSE TRUE

\* the test of DebugLogHandler.emit for one subscriber (a run of twenty "=" holds
\* a run of sixteen)
should_broadcast(log, filter_type) ==
  LET message == log.message
      is_formatted_listing ==
        \/ contains(message, "FORMATTED LISTING")
        \/ contains(message, "================")
        \/ contains(message, "====================")
      is_integration_log == contains(message, "INTEGRATION:")
  IN  IF is_formatted_listing /\ (filter_type = "all" \/ filter_type = "mcp")
        THEN TRUE
      ELSE IF is_integration_log /\ (filter_type = "all" \/ filter_type = "integration")
        THEN TRUE
      ELSE should_display_log(log, filter_type)

\* f"data: {json.dumps(log)}\n\n"
sse_data(log) == [data |-> log]

\* debug_logs.append(log_data), entry after entry. A logging call made while
\* no subscriber is registered and no other thread is inside the handler is
\* this append too: emit appends, takes log_lock, finds nobody to notify and
\* releases it.
RECURSIVE append_logs(_, _)
append_logs(logs, entries) ==
  IF entries = <<>> THEN logs
  ELSE append_logs(Append(logs, log_data(logs, entries[1].level, entries[1].message)),
                   Tail(entries))

\* the level and the message of a log entry to be made
entry(level, message) == [level |-> level, message |-> message]

\* POST /search with a query: before_request logs into the old list, the
\* globals are reset, the thread is started and after_request logs. Requests
\* are numbered in the order in which they are submitted.
nl_search(t) ==
  /\ nl_runs[t].pc = "not_started"
  /\ \A u \in Requests : u < t => nl_runs[u].pc # "not_started"
  /\ search_status' = searching_status
  /\ search_results' = no_results
  /\ debug_logs' = append_logs(<<>>, << entry("INFO", <<"HTTP", " ", "Response", ": 200 for /search">>) >>)
  /\ nl_runs' = [nl_runs EXCEPT ![t].pc = "start"]
  /\ UNCHANGED << progvars, script, appvars, log_subscribers, log_lock,
                  handler_lock, emitters, sse >>

\* run_nl_search up to the call of extract_search_params
run_start(t) ==
  /\ nl_runs[t].pc = "start"
  /\ search_status' = searching_status
  /\ debug_logs' = append_logs(debug_logs,
        << entry("INFO", <<"INTEGRATION:", " Starting search for query: ", query_of(t)>>),
           entry("INFO", <<"INTEGRATION:", " Calling ", "Claude", " to extract search parameters">>) >>)
  /\ nl_runs' = [nl_runs EXCEPT ![t].pc = "extract"]
  /\ UNCHANGED << progvars, script, appvars, search_results, log_subscribers,
                  log_lock, handler_lock, emitters, sse >>

\* except Exception as e: the error is logged and search_status is set to error
run_except(t) ==
  /\ search_status' = error_status(<<"An error occurred: ", "e">>)
  /\ debug_logs' = append_logs(debug_logs,
        << entry("ERROR", <<"Error during search: ", "e">>), entry("ERROR", <<"Error during search: ", "e">>) >>)
  /\ nl_runs' = [nl_runs EXCEPT ![t].pc = "ended",
                                ![t].statuses = Append(@, "error")]
  /\ UNCHANGED << progvars, script, appvars, search_results, log_subscribers,
                  log_lock, handler_lock, emitters, sse >>

\* extract_search_params returns: without a location the run ends with an
\* error status, with one it goes on to the listing search
run_extract_returns(t) ==
  /\ nl_runs[t].pc = "extract"
  /\ \E params \in { [location |-> <<"Paris">>], [location |-> <<>>] } :
       IF params.location = <<>>
       THEN /\ search_status' = error_status(<<"Could not understand the location from your query.">>)
            /\ debug_logs' = append_logs(debug_logs,
                  << entry("INFO", <<"Extracted parameters: ", "params">>),
                     entry("ERROR", <<"INTEGRATION:", " ", "Claude", " failed to extract location from query">>) >>)
            /\ nl_runs' = [nl_runs EXCEPT ![t].pc = "ended",
                                          ![t].statuses = Append(@, "error")]
       ELSE /\ debug_logs' = append_logs(debug_logs,
                  << entry("INFO", <<"Extracted parameters: ", "params">>),
                     entry("INFO", <<"INTEGRATION:", " Calling ", "MCP", " Airbnb search with parameters">>) >>)
            /\ nl_runs' = [nl_runs EXCEPT ![t].pc = "search_airbnb"]
            /\ UNCHANGED search_status
  /\ UNCHANGED << progvars, script, appvars, search_results, log_subscribers,
                  log_lock, handler_lock, emitters, sse >>

\* extract_search_params raises
run_extract_raises(t) ==
  /\ nl_runs[t].pc = "extract"
  /\ run_except(t)

\* search_airbnb returns: with searchResults the listings are formatted and
\* search_results is assigned, without them the run ends with an error status
run_search_airbnb_returns(t) ==
  /\ nl_runs[t].pc = "search_airbnb"
  /\ \E found \in BOOLEAN :
       IF found
       THEN /\ search_results' = [query |-> query_of(t), results |-> t]
            /\ debug_logs' = append_logs(debug_logs,
                  << entry("INFO", <<"INTEGRATION:", " Received ", "listing", " data from Airbnb">>) >>)
            /\ nl_runs' = [nl_runs EXCEPT ![t].pc = "set_done"]
            /\ UNCHANGED search_status
       ELSE /\ search_status' = error_status(<<"No listings found. Please try a different search.">>)
            /\ debug_logs' = append_logs(debug_logs,
                  << entry("WARNING", <<"No ", "search results", " found for query: ", query_of(t)>>),
                     entry("WARNING", <<"No ", "search results", " found for query: ", query_of(t)>>) >>)
            /\ nl_runs' = [nl_runs EXCEPT ![t].pc = "ended",
                                          ![t].statuses = Append(@, "error")]
            /\ UNCHANGED search_results
  /\ UNCHANGED << progvars, script, appvars, log_subscribers, log_lock,
                  handler_lock, emitters, sse >>

\* search_airbnb raises, or the formatting of what it returned does
run_search_airbnb_raises(t) ==
  /\ nl_runs[t].pc = "search_airbnb"
  /\ run_except(t)

\* search_status = {"status": "done", ...} and the log calls up to asyncio.run
run_set_done(t) ==
  /\ nl_runs[t].pc = "set_done"
  /\ search_status' = [status |-> "done", message |-> <<>>, results |-> t]
  /\ debug_logs' = append_logs(debug_logs,
        << entry("INFO", <<"INTEGRATION:", " Search complete">>),
           entry("INFO", <<"Search complete: found ", "N", " listings">>),
           entry("INFO", <<"INTEGRATION:", " Starting text representation generation">>) >>)
  /\ nl_runs' = [nl_runs EXCEPT ![t].pc = "text",
                                ![t].statuses = Append(@, "done")]
  /\ UNCHANGED << progvars, script, appvars, search_results, log_subscribers,
                  log_lock, handler_lock, emitters, sse >>

\* asyncio.run(get_text_representation()) returns; the thread ends
run_text_returns(t) ==
  /\ nl_runs[t].pc = "text"
  /\ debug_logs' = append_logs(debug_logs,
        << entry("INFO", <<"INTEGRATION:", " Processing raw ", "listing", " data for text representation">>),
           entry("INFO", <<"INTEGRATION:", " Completed text representation">>) >>)
  /\ nl_runs' = [nl_runs EXCEPT ![t].pc = "ended"]
  /\ UNCHANGED << progvars, script, appvars, search_status, search_results,
                  log_subscribers, log_lock, handler_lock, emitters, sse >>

\* generate_text_listings raises (it has no try of its own)
run_text_raises(t) ==
  /\ nl_runs[t].pc = "text"
  /\ run_except(t)

NextNlSearch ==
  \E t \in Requests :
     \/ nl_search(t) \/ run_start(t)
     \/ run_extract_returns(t) \/ run_extract_raises(t)
     \/ run_search_airbnb_returns(t) \/ run_search_airbnb_raises(t)
     \/ run_set_done(t)
     \/ run_text_returns(t) \/ run_text_raises(t)

\* InitAppRuns is the state in which no request has been made
SpecNlSearch == InitAppRuns /\ [][NextNlSearch]_vars

-----------------------------------------------------------------------------
(* nl_app.py: DebugLogHandler.emit and the generators of /debug_logs_sse *)

\* the log entries that are followed
MaxLogs == 2

\* the filter values the clients connect with
Filters == {"all", "error"}

\* what the threads log
LoggedRecords ==
  { entry("INFO", <<"INTEGRATION:", " Starting search for query: ", query_of(1)>>),
    entry("INFO", <<"HTTP", " ", "GET", ": / from 127.0.0.1">>),
    entry("ERROR", <<"Error during search: ", "e">>) }

\* the test log generate() makes after the replay (it is not in debug_logs)
test_log(filter_type) ==
  [timestamp |-> 0, level |-> "INFO",
   message |-> <<"TEST LOG: This is a test log entry for filter: ", filter_type>>]

\* a call of emit that has appended its log_data and is about to take log_lock;
\* i is the position of the for loop in log_subscribers
new_frame(log) == [pc |-> "acquire", log |-> log, i |-> 0, dead |-> {}]

\* the innermost call of emit of thread e
top(e) == emitters[e].stack[Len(emitters[e].stack)]

set_top(e, frame) ==
  [emitters EXCEPT ![e].stack = [@ EXCEPT ![Len(emitters[e].stack)] = frame]]

\* logging.info / logging.warning / logging.error called by a thread that is
\* not inside the handler: Handler.handle takes the handler's lock and calls
\* emit, which appends log_data to debug_logs (line 43)
logging_call(e) ==
  /\ emitters[e].stack = <<>>
  /\ handler_lock.owner = 0
  /\ Len(debug_logs) < MaxLogs
  /\ \E r \in LoggedRecords :
       LET log == log_data(debug_logs, r.level, r.message)
       IN  /\ debug_logs' = Append(debug_logs, log)
           /\ emitters' = [emitters EXCEPT ![e].stack = << new_frame(log) >>]
  /\ handler_lock' = [owner |-> e, count |-> 1]
  /\ UNCHANGED << progvars, script, appvars, search_status, search_results,
                  log_subscribers, log_lock, nl_runs, sse >>

\* debug_logs.append({...}) written out in run_nl_search and
\* generate_text_listings: the entry does not go through the handler
direct_append(e) ==
  /\ emitters[e].stack = <<>>
  /\ Len(debug_logs) < MaxLogs
  /\ \E r \in LoggedRecords :
       debug_logs' = append_logs(debug_logs, << r >>)
  /\ UNCHANGED << progvars, script, appvars, search_status, search_results,
                  log_subscribers, log_lock, handler_lock, nl_runs, emitters, sse >>

\* with log_lock: a threading.Lock is taken when it is free, whoever holds it
emit_acquire(e) ==
  /\ emitters[e].stack # <<>>
  /\ top(e).pc = "acquire"
  /\ log_lock = 0
  /\ log_lock' = e
  /\ emitters' = set_top(e, [top(e) EXCEPT !.pc = "broadcast", !.i = 1])
  /\ UNCHANGED << progvars, script, appvars, search_status, search_results,
                  debug_logs, log_subscribers, handler_lock, nl_runs, sse >>

\* one pass of for subscriber in log_subscribers in which nothing raises
emit_deliver(e) ==
  /\ emitters[e].stack # <<>>
  /\ top(e).pc = "broadcast"
  /\ top(e).i <= Len(log_subscribers)
  /\ LET subscriber == log_subscribers[top(e).i]
     IN  sse' = IF should_broadcast(top(e).log, subscriber.filter)
                  THEN [sse EXCEPT ![subscriber.queue].queue =
                                      Append(@, sse_data(top(e).log))]
                  ELSE sse
  /\ emitters' = set_top(e, [top(e) EXCEPT !.i = @ + 1])
  /\ UNCHANGED << progvars, script, appvars, search_status, search_results,
                  debug_logs, log_subscribers, log_lock, handler_lock, nl_runs >>

\* one pass in which the try block raises: the except clause calls
\* logging.error while log_lock is held. The handler's lock is re-entrant, so
\* Handler.handle calls emit again in the same thread: the error entry is
\* appended and the inner emit goes to its own with log_lock.
emit_deliver_raises(e) ==
  /\ emitters[e].stack # <<>>
  /\ top(e).pc = "broadcast"
  /\ top(e).i <= Len(log_subscribers)
  /\ LET log == log_data(debug_logs, "ERROR", <<"Error sending log to subscriber: ", "e">>)
     IN  /\ debug_logs' = Append(debug_logs, log)
         /\ emitters' = [emitters EXCEPT ![e].stack =
               Append([@ EXCEPT ![Len(emitters[e].stack)].pc = "except"], new_frame(log))]
  /\ handler_lock' = [handler_lock EXCEPT !.count = @ + 1]
  /\ UNCHANGED << progvars, script, appvars, search_status, search_results,
                  log_subscribers, log_lock, nl_runs, sse >>

\* one pass in which the try block raises and the logging module drops the
\* record logging.error makes (Python 3.14 and later do so when the logger is
\* the one whose record is being handled): the subscriber is marked dead
emit_deliver_raises_ignored(e) ==
  /\ emitters[e].stack # <<>>
  /\ top(e).pc = "broadcast"
  /\ top(e).i <= Len(log_subscribers)
  /\ emitters' = set_top(e, [top(e) EXCEPT !.dead = @ \cup {log_subscribers[top(e).i]},
                                           !.i = @ + 1])
  /\ UNCHANGED << progvars, script, appvars, search_status, search_results,
                  debug_logs, log_subscribers, log_lock, handler_lock, nl_runs, sse >>

\* the loop is over: the dead subscribers are removed, log_lock is released
\* and emit returns; an outer emit that was in its except clause marks its
\* subscriber dead and goes on with its loop
emit_return(e) ==
  /\ emitters[e].stack # <<>>
  /\ top(e).pc = "broadcast"
  /\ top(e).i > Len(log_subscribers)
  /\ log_subscribers' = SelectSeq(log_subscribers, LAMBDA s : s \notin top(e).dead)
  /\ log_lock' = 0
  /\ LET outer == SubSeq(emitters[e].stack, 1, Len(emitters[e].stack) - 1)
     IN  emitters' = [emitters EXCEPT ![e].stack =
           IF outer = <<>> THEN <<>>
           ELSE [outer EXCEPT ![Len(outer)] =
                   [@ EXCEPT !.pc = "broadcast",
                             !.dead = @ \cup {log_subscribers[outer[Len(outer)].i]},
                             !.i = @ + 1]]]
  /\ handler_lock' = IF handler_lock.count = 1 THEN [owner |-> 0, count |-> 0]
                     ELSE [handler_lock EXCEPT !.count = @ - 1]
  /\ UNCHANGED << progvars, script, appvars, search_status, search_results,
                  debug_logs, nl_runs, sse >>

\* GET /debug_logs_sse: generate() registers its subscriber under log_lock and
\* yields the connection message
sse_connect(c) ==
  /\ sse[c].pc = "not_connected"
  /\ log_lock = 0
  /\ \E filter_type \in Filters :
       /\ log_subscribers' = Append(log_subscribers, [queue |-> c, filter |-> filter_type])
       /\ sse' = [sse EXCEPT ![c] = [pc |-> "replay", filter |-> filter_type, pos |-> 1,
                                     queue |-> <<>>,
                                     delivered |->
                                       << sse_data([timestamp |-> 0, level |-> "INFO",
                                                    message |-> <<"SSE connection established">>]) >>]]
  /\ UNCHANGED << progvars, script, appvars, search_status, search_results,
                  debug_logs, log_lock, handler_lock, nl_runs, emitters >>

\* one pass of for log in debug_logs (the list is read as it is at each pass)
sse_replay(c) ==
  /\ sse[c].pc = "replay"
  /\ sse[c].pos <= Len(debug_logs)
  /\ sse' = [sse EXCEPT
               ![c].delivered =
                  IF should_display_log(debug_logs[sse[c].pos], sse[c].filter)
                    THEN Append(@, sse_data(debug_logs[sse[c].pos])) ELSE @,
               ![c].pos = @ + 1]
  /\ UNCHANGED << progvars, script, appvars, search_status, search_results,
                  debug_logs, log_subscribers, log_lock, handler_lock, nl_runs,
                  emitters >>

\* the for loop is over: the test log is yielded if it passes the filter and
\* the generator starts waiting on its queue
sse_replay_done(c) ==
  /\ sse[c].pc = "replay"
  /\ sse[c].pos > Len(debug_logs)
  /\ sse' = [sse EXCEPT
               ![c].delivered =
                  IF should_display_log(test_log(sse[c].filter), sse[c].filter)
                    THEN Append(@, sse_data(test_log(sse[c].filter))) ELSE @,
               ![c].pc = "streaming"]
  /\ UNCHANGED << progvars, script, appvars, search_status, search_results,
                  debug_logs, log_subscribers, log_lock, handler_lock, nl_runs,
                  emitters >>

\* client_queue.get returns an item and it is yielded (a heartbeat, yielded
\* when the queue stays empty, carries no log and is left out)
sse_get(c) ==
  /\ sse[c].pc = "streaming"
  /\ sse[c].queue # <<>>
  /\ sse' = [sse EXCEPT ![c].delivered = Append(@, Head(sse[c].queue)),
                        ![c].queue = Tail(@)]
  /\ UNCHANGED << progvars, script, appvars, search_status, search_results,
                  debug_logs, log_subscribers, log_lock, handler_lock, nl_runs,
                  emitters >>

\* the client goes away while the generator waits: finally removes the
\* subscriber under log_lock
sse_disconnect(c) ==
  /\ sse[c].pc = "streaming"
  /\ log_lock = 0
  /\ log_subscribers' = SelectSeq(log_subscribers, LAMBDA s : s.queue # c)
  /\ sse' = [sse EXCEPT ![c].pc = "disconnected"]
  /\ UNCHANGED << progvars, script, appvars, search_status, search_results,
                  debug_logs, log_lock, handler_lock, nl_runs, emitters >>

\* the steps of a thread inside the handler
emit(e) ==
  \/ emit_acquire(e)
  \/ emit_deliver(e) \/ emit_deliver_raises(e) \/ emit_deliver_raises_ignored(e)
  \/ emit_return(e)

NextNlLogs ==
  \/ \E e \in Emitters : logging_call(e) \/ direct_append(e) \/ emit(e)
  \/ \E c \in Clients :
        \/ sse_connect(c) \/ sse_replay(c) \/ sse_replay_done(c)
        \/ sse_get(c) \/ sse_disconnect(c)

SpecNlLogs == InitAppRuns /\ [][NextNlLogs]_vars

\* Every thread keeps being scheduled: a step of emit that can be taken is
\* eventually taken.
LiveSpecNlLogs == SpecNlLogs /\ \A e \in Emitters : WF_vars(emit(e))

-----------------------------------------------------------------------------
(* testmcp.process_claude_response when every external call returns *)

\* One more pass of the while loop after the MaxRounds-th. The loop has no
\* counter: the tool is called and returns, the two turns are appended and
\* client.messages.create answers the longer conversation. tool_calls,
\* conversation and messages keep what the first MaxRounds passes recorded;
\* the later passes are followed through response and tool_output.
testmcp_later_round ==
  /\ prog = "testmcp" /\ pc = "while"
  /\ testmcp_loop_cond(response)
  /\ Len(tool_calls) >= MaxRounds
  /\ LET block == first_tool_use(response)
     IN  \E o \in ToolOutcomes :
           /\ ~ o.raised /\ o.content # <<>>
           /\ outcome' = o
           /\ diag' = diagnostic(block.name, o)
           /\ tool_output' = testmcp_tool_output(o)
  /\ tools' = claude_tools
  /\ \E r \in Responses : response' = r
  /\ faults' = 0
  /\ pc' = "while"
  /\ op' = "llm_call"
  /\ UNCHANGED << prog, claude_tools, conversation, tool_call_count,
                  final_text, messages, tool_calls, list_tools_calls, sleeps,
                  fault, script, appvars, nlvars >>

\* the steps of a run in which initialize, list_tools, call_tool and
\* client.messages.create all return
testmcp_returning_Next ==
  \/ testmcp_initialize
  \/ testmcp_list_tools
  \/ testmcp_first_llm
  \/ testmcp_while_enter \/ testmcp_while_exit
  \/ testmcp_call_tool
  \/ testmcp_append
  \/ testmcp_llm_call
  \/ testmcp_later_round
  \/ testmcp_return

\* Every await returns and the code between two awaits runs to the next one:
\* a step of the run that can be taken is eventually taken.
LiveSpecTestmcp ==
  Init /\ [][testmcp_returning_Next]_vars /\ WF_vars(testmcp_returning_Next)

-----------------------------------------------------------------------------
(* Vocabulary of the properties *)

\* how many times x occurs in seq
Occurrences(seq, x) == Cardinality({ i \in 1..Len(seq) : seq[i] = x })

\* the text blocks of a response, joined in block order
RECURSIVE JoinTexts(_)
JoinTexts(blocks) ==
  IF blocks = <<>> THEN <<>> ELSE Head(blocks).text \o JoinTexts(Tail(blocks))

TextsInOrder(content) == JoinTexts(SelectSeq(content, LAMBDA b : b.type = "text"))

ToolUseIndexes(content) == { i \in 1..Len(content) : content[i].type = "tool_use" }

IsRequestTurn(m) ==
  m.ctype = "list" /\ \E k \in 1..Len(m.content) : m.content[k].type = "tool_use"

IsResultTurn(m) ==
  m.ctype = "list" /\ \E k \in 1..Len(m.content) : m.content[k].type = "tool_result"

\* res is the one result of the one request req
Paired(req, res) ==
  /\ req.role = "assistant" /\ req.ctype = "list" /\ Len(req.content) = 1
  /\ req.content[1].type = "tool_use"
  /\ res.role = "user" /\ res.ctype = "list" /\ Len(res.content) = 1
  /\ res.content[1].type = "tool_result"
  /\ res.content[1].tool_use_id = req.content[1].id

WellPaired(msgs) ==
  \A i \in 1..Len(msgs) :
    /\ IsRequestTurn(msgs[i]) => (i < Len(msgs) /\ Paired(msgs[i], msgs[i+1]))
    /\ IsResultTurn(msgs[i]) => (i > 1 /\ Paired(msgs[i-1], msgs[i]))

\* the run holds a response without any tool_use block
NoToolRequested ==
  /\ prog = "simple_mcp"
  /\ pc \in {"while", "final"}
  /\ ToolUseIndexes(response) = {}

ExternalCallOps == {"initialize", "list_tools", "llm_call", "llm_retry", "call_tool"}

-----------------------------------------------------------------------------
(* Properties *)

\* C1: in a run of simple_mcp.agent_loop the number of session.call_tool
\* invocations never exceeds max_tool_calls, whatever the LLM and the tools answer.
C1_BudgetNeverExceeded ==
  prog = "simple_mcp" => Len(tool_calls) <= max_tool_calls

\* the budget is used up and the LLM asks for one more tool
C1_Witness ==
  /\ prog = "simple_mcp"
  /\ pc = "final"
  /\ faults = 0
  /\ Len(tool_calls) = max_tool_calls
  /\ ToolUseIndexes(response) # {}

\* C2: the messages of every LLM call (both programs) pair each tool request
\* turn with exactly one tool result turn that follows it immediately and
\* carries its id; no request is unresolved, no result unpaired or duplicated.
C2_RequestsPairedAtEveryLLMCall == WellPaired(messages)

C2_Witness ==
  /\ prog = "testmcp"
  /\ op = "llm_call"
  /\ Len(messages) = 5
  /\ messages[2].content[1].id # messages[4].content[1].id

\* C3: once simple_mcp.agent_loop holds a response with no tool_use block
\* (an empty response included), its only steps are leaving the loop and
\* returning the in-order concatenation of that response's text blocks: no
\* LLM call and no tool call is made; after a first such response no tool
\* was ever called.
C3_NoToolUseEndsRun ==
  [][ NoToolRequested =>
        /\ pc' \in {"final", "done"}
        /\ op' \notin ExternalCallOps
        /\ tool_calls' = tool_calls
        /\ messages' = messages
        /\ response' = response
        /\ fault' = "none"
        /\ pc' = "done" => final_text' = TextsInOrder(response)
        /\ Len(conversation) = 1 => tool_calls' = <<>> ]_vars

\* a first response of two text blocks has been returned verbatim
C3_Witness ==
  /\ prog = "simple_mcp"
  /\ pc = "done"
  /\ response = <<Ta, Tb>>
  /\ final_text = <<"a", "b">>
  /\ tool_calls = <<>>

\* C4: when the dispatch of a round is complete for a response holding more
\* than one tool_use block (both programs), that round made exactly one
\* call_tool, with the name and input of the tool_use block of least index,
\* and added to the conversation exactly the request/result pair of that
\* block: the other tool_use blocks were neither called nor appended.
C4_OnlyFirstToolUseDispatched ==
  (pc = "llm_call" /\ Cardinality(ToolUseIndexes(response)) > 1) =>
     \E i \in ToolUseIndexes(response) :
        /\ \A j \in ToolUseIndexes(response) : i <= j
        /\ 2 * Len(tool_calls) = Len(messages) + 1
        /\ tool_calls[Len(tool_calls)] =
              [name |-> response[i].name, input |-> response[i].input]
        /\ Len(conversation) = Len(messages) + 2
        /\ SubSeq(conversation, 1, Len(messages)) = messages
        /\ LET req == conversation[Len(conversation) - 1]
               res == conversation[Len(conversation)]
           IN  /\ Paired(req, res)
               /\ req.content[1].id = response[i].id
               /\ req.content[1].name = response[i].name
               /\ req.content[1].input = response[i].input

\* a response asked for the details tool, then for the search tool
C4_Witness ==
  /\ pc = "llm_call"
  /\ response = <<Ta, U2, Tb, U1>>
  /\ tool_calls[Len(tool_calls)].name = "airbnb_listing_details"

\* C5: in simple_mcp.agent_loop a session.call_tool that raises does not end
\* the run: tool_output becomes the error 'Error making tool call: ' followed
\* by the fault's description, the next step appends the request turn and a
\* result turn carrying the request's call id and that error, and control is
\* then at the next LLM call.
C5_ToolFaultBecomesErrorTurn ==
  [][ prog = "simple_mcp" =>
        /\ (op' = "call_tool" /\ outcome'.raised) =>
              /\ pc' = "append"
              /\ fault' = "none"
              /\ tool_output' = [error |-> <<"Error making tool call: ">> \o outcome'.desc]
        /\ (pc = "append" /\ outcome.raised) =>
              /\ pc' = "llm_call"
              /\ fault' = "none"
              /\ Len(conversation') = Len(conversation) + 2
              /\ SubSeq(conversation', 1, Len(conversation)) = conversation
              /\ \E i \in ToolUseIndexes(response) :
                    /\ \A j \in ToolUseIndexes(response) : i <= j
                    /\ conversation'[Len(conversation') - 1].content[1].id = response[i].id
                    /\ conversation'[Len(conversation')] =
                         [role |-> "user", ctype |-> "list",
                          content |-> << [type |-> "tool_result",
                                          tool_use_id |-> response[i].id,
                                          content |-> <<"{", "\"", "error", "\"", ": ", "\"",
                                                        "Error making tool call: ">>
                                                      \o outcome.desc \o <<"\"", "}">>] >>] ]_vars

\* the error turn of a raised call_tool is in the conversation, the LLM is called next
C5_Witness ==
  /\ prog = "simple_mcp"
  /\ pc = "llm_call"
  /\ outcome.raised
  /\ conversation[Len(conversation)].content[1].type = "tool_result"

\* C6: when a follow-up LLM call of simple_mcp.agent_loop and its retry both
\* raise, the run returns without raising and the text it returns is the
\* empty string.
C6_DoubleFaultReturnsEmpty ==
  (prog = "simple_mcp" /\ pc = "done" /\ faults = 2) =>
     (fault = "none" /\ final_text = <<>>)

\* C7: every LLM call of simple_mcp.agent_loop that raises is retried exactly
\* once, after the sleep of 5: the first faulted attempt of a call leads to
\* the retry, and a faulted retry is not retried again.
C7_EveryFaultedLLMCallRetriedOnce ==
  [][ prog = "simple_mcp" =>
        /\ (faults = 0 /\ faults' = 1) =>
              /\ pc' = "llm_retry"
              /\ sleeps' # <<>>
              /\ sleeps'[Len(sleeps')] = 5
        /\ faults' = 2 => pc' # "llm_retry" ]_vars

\* C8: a run of simple_mcp.agent_loop ends by returning a text or by raising
\* the fault of the tool session's start-up (initialize, list_tools); no
\* fault of the LLM service or of a tool call leaves the run.
C8_OnlyDiscoveryFaultEscapes ==
  (prog = "simple_mcp" /\ pc = "raised") => fault \in {"initialize", "list_tools"}

\* C9: when max_tool_calls dispatches were made in simple_mcp.agent_loop and
\* the response then received asks for a tool again, no dispatch is made for
\* it: the run leaves the loop and returns, without raising, the in-order
\* concatenation of that response's text blocks, the number of dispatches
\* staying max_tool_calls.
C9_BudgetExhaustedReturnsLastText ==
  [][ ( /\ prog = "simple_mcp"
        /\ pc \in {"while", "final"}
        /\ faults = 0
        /\ ToolUseIndexes(response) # {}
        /\ Len(tool_calls) >= max_tool_calls ) =>
        /\ pc' \in {"final", "done"}
        /\ op' \notin ExternalCallOps
        /\ tool_calls' = tool_calls
        /\ Len(tool_calls') = max_tool_calls
        /\ response' = response
        /\ fault' = "none"
        /\ pc' = "done" => final_text' = TextsInOrder(response) ]_vars

\* the sixth response asked for tools between two text blocks; their texts were returned
C9_Witness ==
  /\ prog = "simple_mcp"
  /\ pc = "done"
  /\ faults = 0
  /\ tool_call_count = max_tool_calls
  /\ Len(conversation) = 1 + 2 * max_tool_calls
  /\ response = <<Ta, U2, Tb, U1>>
  /\ final_text = <<"a", "b">>

\* C10: when session.list_tools fails in simple_mcp.agent_loop the run has
\* failed at that very call: the fault is raised to the caller, list_tools was
\* called once, and no LLM call and no tool call was made.
C10_DiscoveryFaultIsFatal ==
  (prog = "simple_mcp" /\ fault = "list_tools") =>
     /\ pc = "raised"
     /\ op = "list_tools"
     /\ list_tools_calls = 1
     /\ messages = <<>>
     /\ tool_calls = <<>>
     /\ conversation = <<>>

C10_Witness ==
  /\ prog = "simple_mcp"
  /\ pc = "raised"
  /\ fault = "list_tools"
  /\ list_tools_calls = 1

\* C11: with every external call eventually returning or raising, every run of
\* simple_mcp.agent_loop terminates: it returns or it raises.
C11_SimpleRunTerminates ==
  (prog = "simple_mcp") ~> (pc \in {"done", "raised"})

\* a run that used its whole budget and lost its last LLM call twice has returned
C11_Witness ==
  /\ prog = "simple_mcp"
  /\ pc = "done"
  /\ tool_call_count = max_tool_calls
  /\ faults = 2

\* C13: every step of a run leaves the conversation as it was or appends to
\* it: the previous conversation is a prefix of the new one, the first turn is
\* the user prompt, and no turn added after it is a plain user-prompt turn.
C13_ConversationAppendOnly ==
  [][ /\ Len(conversation') >= Len(conversation)
      /\ SubSeq(conversation', 1, Len(conversation)) = conversation
      /\ conversation' # <<>> =>
            /\ conversation'[1].role = "user"
            /\ conversation'[1].ctype = "str"
            /\ conversation'[1].content = prompt
      /\ \A i \in (Len(conversation) + 1)..Len(conversation') :
            i > 1 => conversation'[i].ctype = "list" ]_vars

\* three request/result pairs follow the prompt
C13_Witness ==
  /\ prog = "simple_mcp"
  /\ pc = "while"
  /\ Len(conversation) = 7
  /\ conversation[1] = user_message(prompt)

\* C14: the step that records a dispatched tool call (both programs) appends
\* a request turn whose id and a result turn whose tool_use_id are both the id
\* of the tool_use block the LLM supplied, whatever the call did: returned a
\* result, returned an error or raised.
C14_CallIdEchoed ==
  [][ pc = "append" =>
        \E i \in ToolUseIndexes(response) :
           /\ \A j \in ToolUseIndexes(response) : i <= j
           /\ Len(conversation') = Len(conversation) + 2
           /\ conversation'[Len(conversation) + 1].content[1].type = "tool_use"
           /\ conversation'[Len(conversation) + 1].content[1].id = response[i].id
           /\ conversation'[Len(conversation) + 2].content[1].type = "tool_result"
           /\ conversation'[Len(conversation) + 2].content[1].tool_use_id = response[i].id ]_vars

\* a call the service reported as failed was recorded under the LLM's id
C14_Witness ==
  /\ prog = "simple_mcp"
  /\ pc = "llm_call"
  /\ ~ outcome.raised /\ outcome.isError
  /\ response = <<U2, U1>>
  /\ conversation[Len(conversation) - 1].content[1].id = "toolu_2"
  /\ conversation[Len(conversation)].content[1].tool_use_id = "toolu_2"

\* the sleeps of the round that precede the LLM call just issued: a sleep of
\* 5 that follows the call's fault is not one of them
SleepsBeforeCall(sl, faulted) ==
  IF faulted THEN SubSeq(sl, 1, Len(sl) - 1) ELSE sl

\* C15: for every value call_tool returns, the outcome stored for the
\* tool-result turn is an error outcome when isError is true and a success
\* outcome when isError is false, and it holds the text of the first content
\* element unmodified, whatever the later content elements are.
C15_OutcomeFromFirstContent ==
  [][ (pc = "call_tool" /\ pc' = "append" /\ ~ outcome'.raised) =>
        /\ DOMAIN tool_output' = (IF outcome'.isError THEN {"error"} ELSE {"result"})
        /\ outcome'.content # <<>> =>
              tool_output' = (IF outcome'.isError
                                THEN [error |-> outcome'.content[1].text]
                                ELSE [result |-> outcome'.content[1].text]) ]_vars

\* C16: for a tool call reported as successful, the outcome stored, the
\* tool-result turn appended and the control flow that follows are the same
\* whether the diagnostic parse of the result text succeeded or failed.
C16_ParseFailureOnlyLogged ==
  [][ LET successful(o) == ~ o.raised /\ ~ o.isError /\ o.content # <<>>
          block == first_tool_use(response)
      IN  /\ (pc = "call_tool" /\ op' = "call_tool" /\ successful(outcome')) =>
                /\ diag' \in {"found_results", "snippet", "could_not_parse"}
                /\ (diag' = "could_not_parse") <=>
                      (\/ ~ json_loads(outcome'.content[1].text).ok
                       \/ /\ block.name = "airbnb_search"
                          /\ json_loads(outcome'.content[1].text).kind
                                \in {"number", "literal"})
                /\ tool_output' = [result |-> outcome'.content[1].text]
                /\ pc' = "append"
                /\ fault' = "none"
                /\ UNCHANGED << conversation, response, tool_call_count, final_text,
                                messages, claude_tools, faults, sleeps >>
          /\ (pc = "append" /\ successful(outcome)) =>
                /\ conversation' = conversation \o
                     << tool_use_message(block),
                        tool_result_message(block, [result |-> outcome.content[1].text]) >>
                /\ pc' = "llm_call" ]_vars

\* a run that ended normally after a successful tool call whose text could not
\* be parsed, its text in the result turn
C16_Witness ==
  /\ pc = "done"
  /\ diag = "could_not_parse"
  /\ ~ outcome.raised /\ ~ outcome.isError
  /\ outcome.content # <<>>
  /\ Len(conversation) = 3
  /\ conversation[3].content[1].content =
       json_dumps([result |-> outcome.content[1].text])

\* C17 as claimed: in simple_mcp.agent_loop a rate-limit delay precedes the
\* follow-up LLM call of a round exactly when tool_call_count > 1; the round
\* of the first tool call has no delay before its follow-up LLM call.
C17_DelayOnlyAfterFirstRound ==
  [][ (prog = "simple_mcp" /\ pc = "llm_call") =>
        ( SleepsBeforeCall(sleeps', faults' = 1) # <<>> <=> tool_call_count > 1 ) ]_vars

\* C17 amended: a round of simple_mcp.agent_loop sleeps 3 at its start, before
\* the tool call, exactly when tool_call_count > 1, and sleeps 2 before its
\* follow-up LLM call in every round, the round of the first tool call
\* included; nothing else is slept before that LLM call.
C17_DelaysOfARound ==
  [][ prog = "simple_mcp" =>
        /\ (pc = "while" /\ pc' = "call_tool") =>
              sleeps' = IF tool_call_count' > 1 THEN << 3 >> ELSE << >>
        /\ pc \in {"call_tool", "append"} => sleeps' = sleeps
        /\ pc = "llm_call" =>
              SleepsBeforeCall(sleeps', faults' = 1) =
                 IF tool_call_count > 1 THEN << 3, 2 >> ELSE << 2 >> ]_vars

\* the follow-up LLM call of the first round was preceded by the sleep of 2
C17_Witness ==
  /\ prog = "simple_mcp"
  /\ pc = "while"
  /\ op = "llm_call"
  /\ tool_call_count = 1
  /\ sleeps = << 2 >>

\* C18: in simple_mcp.agent_loop a response holding a tool_use block while
\* tool_call_count < max_tool_calls does not end the run, whatever text comes
\* with it: the round increments tool_call_count by one, makes one tool call,
\* records it, and then issues an LLM call.
C18_ToolRequestContinuesRun ==
  [][ prog = "simple_mcp" =>
        /\ ( /\ pc = "while"
             /\ ToolUseIndexes(response) # {}
             /\ tool_call_count < max_tool_calls ) =>
              /\ pc' = "call_tool"
              /\ tool_call_count' = tool_call_count + 1
              /\ tool_calls' = tool_calls
        /\ pc = "call_tool" =>
              /\ pc' = "append"
              /\ Len(tool_calls') = Len(tool_calls) + 1
              /\ tool_call_count' = tool_call_count
        /\ pc = "append" =>
              /\ pc' = "llm_call"
              /\ tool_calls' = tool_calls
              /\ tool_call_count' = tool_call_count
        /\ pc = "llm_call" =>
              /\ op' = "llm_call"
              /\ messages' = conversation
              /\ tool_calls' = tool_calls
              /\ tool_call_count' = tool_call_count ]_vars

\* a response of a text block and a tool request led to one call and to an LLM call
C18_Witness ==
  /\ prog = "simple_mcp"
  /\ pc = "llm_retry"
  /\ response = <<Ta, U1>>
  /\ tool_call_count = 1
  /\ Len(tool_calls) = 1

\* C19 as claimed: at every point of a run of simple_mcp.agent_loop
\* tool_call_count equals the number of tool calls dispatched so far.
C19_CountEqualsDispatches ==
  prog = "simple_mcp" => tool_call_count = Len(tool_calls)

\* C19 amended: tool_call_count equals the number of tool calls dispatched so
\* far, except between its increment at the top of a round and that round's
\* call_tool, where it is one more; LLM calls, failed or not, and retries
\* never change it.
C19_CountTracksDispatches ==
  [][ prog = "simple_mcp" =>
        /\ tool_call_count' =
              Len(tool_calls') + (IF pc' = "call_tool" THEN 1 ELSE 0)
        /\ op' \in {"llm_call", "llm_retry"} => tool_call_count' = tool_call_count ]_vars

\* the LLM call of the second round failed and was retried: two calls, count two
C19_Witness ==
  /\ prog = "simple_mcp"
  /\ pc = "while"
  /\ op = "llm_retry"
  /\ tool_call_count = 2
  /\ Len(tool_calls) = 2

\* C20: every LLM call after the first (both programs) sends the whole
\* conversation: the user prompt followed by the request/result pairs of all
\* dispatched calls in dispatch order; the first attempt of a round sends the
\* messages of the previous LLM call plus exactly one pair, a retry sends the
\* messages of the attempt that faulted.
C20_MessagesAreWholeConversation ==
  [][ (pc \in {"llm_call", "llm_retry"} /\ op' \in {"llm_call", "llm_retry"}) =>
        /\ messages' = conversation
        /\ Len(messages') = 1 + 2 * Len(tool_calls)
        /\ messages'[1].ctype = "str" /\ messages'[1].content = prompt
        /\ \A k \in 1..Len(tool_calls) :
              /\ Paired(messages'[2 * k], messages'[2 * k + 1])
              /\ messages'[2 * k].content[1].name = tool_calls[k].name
              /\ messages'[2 * k].content[1].input = tool_calls[k].input
        /\ pc = "llm_call" =>
              /\ Len(messages') = Len(messages) + 2
              /\ SubSeq(messages', 1, Len(messages)) = messages
        /\ pc = "llm_retry" => messages' = messages ]_vars

\* a retry that followed two dispatches sent the prompt and both pairs
C20_Witness ==
  /\ prog = "simple_mcp"
  /\ op = "llm_retry"
  /\ Len(messages) = 5
  /\ messages = conversation

\* C12 as claimed: a run whose first response requests one tool and whose
\* second response is text only has dispatched exactly one tool call when it
\* returns, and its conversation holds 4 turns.
C12_ScenarioBFourTurns ==
  (pc = "done" /\ faults = 0) =>
     (Len(tool_calls) = 1 /\ Len(conversation) = 4)

\* C12 amended: such a run has dispatched exactly one tool call when it
\* returns and its conversation holds 3 turns: the user prompt, the tool
\* request and the tool result; the final text-only response is not a turn.
C12_ScenarioBThreeTurns ==
  (pc = "done" /\ faults = 0) =>
     /\ Len(tool_calls) = 1
     /\ Len(conversation) = 3
     /\ conversation[1].ctype = "str" /\ conversation[1].content = prompt
     /\ Paired(conversation[2], conversation[3])
     /\ final_text = TextsInOrder(response)

\* the run of scenario B has returned the text of its second response
C12_Witness ==
  /\ prog = "simple_mcp"
  /\ pc = "done"
  /\ faults = 0
  /\ response = <<Ta, Tb>>
  /\ Len(tool_calls) = 1
  /\ Len(conversation) = 3

-----------------------------------------------------------------------------
(* Claims C21..C30 *)

\* one declaration per discovered tool, its name, description and schema as discovered
DeclaresCatalog(decls) ==
  /\ Len(decls) = Len(mcp_tools)
  /\ \A i \in 1..Len(mcp_tools) :
       decls[i] = [name |-> mcp_tools[i].name,
                   description |-> mcp_tools[i].description,
                   input_schema |-> mcp_tools[i].inputSchema]

\* C21: list_tools is called at most once in a run, exactly once before any
\* LLM call, and every LLM call (first, follow-up, retry) is issued with the
\* same tools argument: one declaration per discovered tool with its name,
\* description and input schema unchanged.
C21_CatalogFetchedOnceAndCarried ==
  /\ [](list_tools_calls <= 1)
  /\ [][ (op' \in {"llm_call", "llm_retry"}) =>
           /\ list_tools_calls' = 1
           /\ DeclaresCatalog(tools')
           /\ (tools # <<>> => tools' = tools) ]_vars

\* a retry issued in the third round of a run carried the catalog
C21_Witness ==
  /\ op = "llm_retry"
  /\ Len(tool_calls) = 2
  /\ list_tools_calls = 1
  /\ DeclaresCatalog(tools)

\* the state of the loop's state machine the run is in: STARTING up to the
\* first LLM call, AWAITING_LLM from an LLM call to the decision on its
\* response (or to its retry), DISPATCHING_TOOL from the decision to dispatch to
\* the next LLM call, DONE after the loop; a run ended by an LLM fault is
\* FAILED, a run ended by a fault of initialize or list_tools is DISCOVERY_FAILED
phase ==
  CASE pc \in {"initialize", "list_tools", "first_llm"} -> "STARTING"
    [] pc \in {"while", "llm_retry"} -> "AWAITING_LLM"
    [] pc \in {"call_tool", "append", "llm_call"} -> "DISPATCHING_TOOL"
    [] pc \in {"final", "done"} -> IF faults = 2 THEN "FAILED" ELSE "DONE"
    [] pc = "raised" -> IF fault = "llm" THEN "FAILED" ELSE "DISCOVERY_FAILED"

PhaseTransitions ==
  { <<"STARTING", "STARTING">>, <<"STARTING", "AWAITING_LLM">>,
    <<"STARTING", "DISCOVERY_FAILED">>,
    <<"AWAITING_LLM", "AWAITING_LLM">>, <<"AWAITING_LLM", "DISPATCHING_TOOL">>,
    <<"AWAITING_LLM", "DONE">>, <<"AWAITING_LLM", "FAILED">>,
    <<"DISPATCHING_TOOL", "DISPATCHING_TOOL">>, <<"DISPATCHING_TOOL", "AWAITING_LLM">>,
    <<"DONE", "DONE">>, <<"FAILED", "FAILED">> }

\* C22: simple_mcp.agent_loop moves through STARTING, AWAITING_LLM,
\* DISPATCHING_TOOL and DONE by the transitions of the state machine only: a
\* tool call is dispatched only after an LLM response was received, an LLM call
\* is issued only from start-up or from a dispatch, and a run fails on an LLM
\* fault only while awaiting an LLM response, after the retry has faulted too.
C22_FollowsStateMachine ==
  [][ prog = "simple_mcp" =>
        /\ << phase, phase' >> \in PhaseTransitions
        /\ (op' = "call_tool") => (op = "while" /\ faults = 0 /\ response # <<>>)
        /\ (op' = "llm_call") => phase \in {"STARTING", "DISPATCHING_TOOL"}
        /\ (phase' = "FAILED" /\ phase # "FAILED") =>
              (phase = "AWAITING_LLM" /\ op' = "llm_retry" /\ faults' = 2) ]_vars

\* C26: in both programs list_tools is called only right after
\* session.initialize has returned, and an LLM call or a tool call is issued
\* only after list_tools has returned the catalog, from which the tool
\* declarations were built.
C26_StartUpOrder ==
  [][ /\ (op' = "initialize") => op = "start"
      /\ (op' = "list_tools") =>
            (op = "initialize" /\ pc = "list_tools" /\ fault = "none")
      /\ (op' \in {"llm_call", "llm_retry", "call_tool"}) =>
            /\ list_tools_calls = 1
            /\ claude_tools = to_claude_tools(mcp_tools)
            /\ fault = "none"
      /\ (op' = "llm_call" /\ pc = "first_llm") => op = "list_tools" ]_vars

\* the first LLM call of a testmcp run was issued, after discovery
C26_Witness ==
  /\ prog = "testmcp"
  /\ op = "llm_call"
  /\ tool_calls = <<>>
  /\ list_tools_calls = 1
  /\ messages = << user_message(prompt) >>

\* C27: in simple_mcp, whenever an LLM call after the first is about to be
\* issued or retried, at each such call, and once the loop is left, the
\* conversation holds 1 + 2 * tool_call_count turns: LLM responses, retries and
\* budget exhaustion add none.
C27_ConversationLength ==
  /\ [](prog = "simple_mcp" =>
          /\ pc \in {"llm_call", "llm_retry", "final", "done"} =>
                Len(conversation) = 1 + 2 * tool_call_count
          /\ (pc = "while" /\ op \in {"llm_call", "llm_retry"}) =>
                Len(conversation) = 1 + 2 * tool_call_count)
  /\ [][ (prog = "simple_mcp" /\ op' \in {"llm_call", "llm_retry"}
            /\ pc # "first_llm") =>
           Len(messages') = 1 + 2 * tool_call_count' ]_vars

\* a run that returned because its budget was used up, its last response
\* still requesting a tool
C27_Witness ==
  /\ prog = "simple_mcp"
  /\ pc = "done"
  /\ tool_call_count = max_tool_calls
  /\ any_tool_use(response)
  /\ Len(conversation) = 1 + 2 * max_tool_calls

\* the loop was left by the break that follows a failed retry: response is
\* still the response whose tool request was dispatched in the last round
ResponseWasDispatched == pc \in {"final", "done"} /\ faults = 2

\* C28: every assistant turn of the conversation holds exactly one content
\* block, the tool-use block that was dispatched in its round, and the text
\* blocks of a response whose tool request was dispatched are not part of the
\* final text.
C28_OnlyDispatchedBlockKept ==
  /\ \A i \in 1..Len(conversation) :
        conversation[i].role = "assistant" =>
           /\ i % 2 = 0
           /\ Len(conversation[i].content) = 1
           /\ conversation[i].content[1].type = "tool_use"
           /\ conversation[i].content[1].name = tool_calls[i \div 2].name
           /\ conversation[i].content[1].input = tool_calls[i \div 2].input
  /\ (pc = "done" /\ ResponseWasDispatched) => final_text = <<>>

\* C29 as claimed: when session.call_tool is called the assistant tool-request
\* turn of the round is already the last turn of the conversation, and the
\* tool-result turn is appended after the call has returned.
C29_RequestTurnBeforeCall ==
  [][ /\ (op' = "call_tool") =>
            /\ Len(conversation) = 2 * Len(tool_calls')
            /\ conversation[Len(conversation)] = tool_use_message(first_tool_use(response))
      /\ (op' = "append") =>
            conversation' = Append(conversation,
                                   tool_result_message(first_tool_use(response), tool_output))
    ]_vars

\* C29 amended: when session.call_tool is called the conversation holds no
\* turn of the round yet; after the call has returned (or, in simple_mcp,
\* raised) the tool-request turn and then the tool-result turn are appended,
\* together, and if the call leaves testmcp's run neither is.
C29_BothTurnsAfterCall ==
  [][ /\ (op' = "call_tool") =>
            /\ conversation' = conversation
            /\ Len(conversation) = 1 + 2 * (Len(tool_calls') - 1)
            /\ pc' \in {"append", "raised"}
      /\ (op' = "append") =>
            /\ op = "call_tool"
            /\ conversation' = conversation \o
                 << tool_use_message(first_tool_use(response)),
                    tool_result_message(first_tool_use(response), tool_output) >>
      /\ (conversation' # conversation /\ conversation # <<>>) => op' = "append"
    ]_vars

\* the second tool call of a run has returned and its turns are not appended yet
C29_Witness ==
  /\ op = "call_tool"
  /\ pc = "append"
  /\ Len(tool_calls) = 2
  /\ Len(conversation) = 3
  /\ ~ outcome.raised

\* C30: with no external call faulting, for a script in which at most 5
\* responses request a tool and for every tool outcome, a run of simple_mcp and
\* a run of testmcp both return, having issued the same tool calls, built the
\* same conversation and produced the same final text: those of the script.
C30_SameRunInBothPrograms ==
  (pc \in {"done", "raised"}) =>
     /\ pc = "done"
     /\ tool_calls = simple_run(script).tool_calls
     /\ conversation = simple_run(script).conversation
     /\ final_text = simple_run(script).final_text

\* what the run of request t does when it runs alone against its script
RunAlone(t) ==
  simple_run_from(runs[t].script, 1, << user_message(runs[t].prompt) >>, <<>>)

IsPrefix(a, b) == Len(a) <= Len(b) /\ SubSeq(b, 1, Len(a)) = a

\* C23: a step of one run of agent_loop leaves the tool_call_count,
\* conversation and response of every other run as they are, and each run
\* dispatches the tool calls and returns the final text it would if it ran
\* alone against the same LLM responses and tool outcomes.
C23_RunsAreIndependent ==
  /\ [][ \A t \in Requests :
           (runs'[t] # runs[t]) => \A u \in Requests \ {t} : runs'[u] = runs[u] ]_vars
  /\ [](\A t \in Requests :
          /\ runs[t].tool_call_count = Len(runs[t].tool_calls)
          /\ IsPrefix(runs[t].tool_calls, RunAlone(t).tool_calls)
          /\ IsPrefix(runs[t].conversation, RunAlone(t).conversation)
          /\ runs[t].pc = "done" =>
                /\ runs[t].tool_calls = RunAlone(t).tool_calls
                /\ runs[t].conversation = RunAlone(t).conversation
                /\ runs[t].final_text = RunAlone(t).final_text)

\* two runs were in progress together: the first has returned after two
\* dispatches while the second, with another script, is between its dispatch
\* and its next LLM call
C23_Witness ==
  /\ runs[1].pc = "done"
  /\ runs[1].tool_call_count = 2
  /\ runs[2].pc = "llm_call"
  /\ runs[2].tool_call_count = 1
  /\ runs[1].script # runs[2].script
  /\ Len(runs[2].conversation) = 3

\* the lines of the log that the run of request t emitted, in log order
LinesOf(t, logs) == SelectSeq(logs, LAMBDA e : e.run = t)

\* the run of request t has cleared the log for itself and has not ended
InProgress(t) ==
  threads[t].pc \notin {"not_started", "clear", "ended"}

\* C24: while a run of run_agent_with_capture is in progress the lines it has
\* emitted stay in capture.logs, in the order it emitted them: every step,
\* of any request, only adds lines after them.
C24_LogAppendOnlyDuringRun ==
  [][ \A t \in Requests :
        InProgress(t) =>
           IsPrefix(LinesOf(t, capture.logs), LinesOf(t, capture'.logs)) ]_vars

\* C25: when run_agent_with_capture stores the result of agent_loop, the
\* stored final_result is the 'No results found' message if agent_loop
\* returned the empty text and is the returned text itself otherwise.
C25_StoredResult ==
  [][ \A t \in Requests :
        (threads[t].pc = "set_result" /\ threads'[t].pc # "set_result") =>
           /\ threads[t].result = <<>> => capture'.final_result = NoResultsMessage
           /\ threads[t].result # <<>> => capture'.final_result = threads[t].result
           /\ capture'.logs = capture.logs ]_vars

\* a run whose agent_loop returned the empty text has ended and the message
\* is what is stored
C25_Witness ==
  \E t \in Requests :
     /\ threads[t].pc = "ended"
     /\ threads[t].result = <<>>
     /\ capture.final_result = NoResultsMessage
     /\ \E i \in 1..Len(capture.logs) :
           capture.logs[i] = LogLine(t, EmptyResultLine)

-----------------------------------------------------------------------------
(* Claims C31..C38 *)

\* C31: with every external call returning, every run of
\* testmcp.process_claude_response terminates, whatever the LLM answers, also
\* when every answer requests a tool.
C31_TestmcpRunTerminates ==
  (prog = "testmcp") ~> (pc \in {"done", "raised"})

\* C32: once every started run_agent_with_capture invocation has ended,
\* builtins.print is the original print function again.
C32_PrintRestoredAfterRuns ==
  ( /\ \E t \in Requests : threads[t].pc = "ended"
    /\ \A t \in Requests : threads[t].pc \in {"not_started", "ended"} )
  => print_fn = original_print

\* C33: whenever /status answers done = true, the final_result it answers is
\* not empty.
C33_DoneHasResult ==
  status.done => status.final_result # <<>>

\* C34: every search started through /search leads to a state in which
\* /status answers done = true with a final_result that is not empty.
C34_SearchLeadsToDone ==
  \A t \in Requests :
    (threads[t].pc # "not_started")
      ~> (status.done /\ status.final_result # <<>>)

\* C36: a second /search was submitted while the first was running, both runs
\* returned different results and both have ended: /status serves the result
\* of the second query.
C36_LaterQueryServed ==
  ( /\ threads[2].submitted_during = {1}
    /\ \A t \in Requests : threads[t].pc = "ended"
    /\ \A t \in Requests : threads[t].result # <<>>
    /\ threads[1].result # threads[2].result )
  => status.final_result = threads[2].result

\* C35: every run of run_nl_search assigns a terminal status to search_status
\* exactly once: it has assigned one when it ends, and it never assigns a
\* second one (in particular no "error" after "done").
C35_TerminalStatusSetOnce ==
  \A t \in Requests :
    /\ Len(nl_runs[t].statuses) <= 1
    /\ nl_runs[t].pc = "ended" => Len(nl_runs[t].statuses) = 1

\* C37: every entry of debug_logs that passes a connected subscriber's filter
\* reaches that subscriber exactly once: it is never yielded or queued twice,
\* and once the replay is over and no thread is inside the handler it has
\* been yielded or is waiting in the subscriber's queue.
C37_DeliveredExactlyOnce ==
  \A c \in Clients :
    sse[c].pc \in {"replay", "streaming"} =>
      \A i \in 1..Len(debug_logs) :
        should_display_log(debug_logs[i], sse[c].filter) =>
          LET n == Occurrences(sse[c].delivered \o sse[c].queue, sse_data(debug_logs[i]))
          IN  /\ n <= 1
              /\ ( /\ sse[c].pc = "streaming"
                   /\ \A e \in Emitters : emitters[e].stack = <<>> ) => n = 1

\* C38: a thread that has entered DebugLogHandler.emit leaves it, with
\* log_lock released.
C38_EmitReturns ==
  \A e \in Emitters :
    (emitters[e].stack # <<>>) ~> (emitters[e].stack = <<>> /\ log_lock # e)

====
